---- MODULE Spec2Model ----
(***************************************************************************)
(* A model of svar_core: sealing a secret under every M-subset of the      *)
(* entropies derived from N security questions' answers, and opening it.   *)
(*                                                                         *)
(* Strings are sequences of characters, byte strings are sequences of      *)
(* integers.  HKDF-SHA-256 and AES-256-GCM are idealised: an HKDF output   *)
(* is a fresh 256-bit vector for every distinct (salt, ikm, info), written *)
(* as the one-element set of that triple; XOR of such vectors is the       *)
(* symmetric difference of the sets (addition in the free GF(2) space).    *)
(* An AES-GCM box verifies under exactly the key that produced it.         *)
(***************************************************************************)
EXTENDS Integers, Sequences, FiniteSets, TLC

VARIABLES
    QUESTION_COUNT,        \* const generic N of the types in use
    MIN_CORRECT_ANSWERS,   \* const generic M of the types in use
    tfi_call,              \* last try_from_iter call: input and result
    kdf_call,              \* last key derivation: input and result
    seal_call,             \* last seal: secret, input, nonces, result
    open_call,             \* last open: input, result, pairs attempted
    salts_generated,       \* salts drawn from the platform CSPRNG so far
    entropy_call,          \* last two entropy derivations: inputs and results
    kdf_again,             \* a second key derivation from the input of kdf_call
    aead_call,             \* last encrypt and decrypt of the AEAD scheme
    wire_call,             \* last container written to JSON and read back
    xor_call,              \* last sub-KDF B derivation, and the same reordered
    reopen_call,           \* an open with the entries of open_call reordered
    binom_call             \* last n_choose_m call

vars == <<QUESTION_COUNT, MIN_CORRECT_ANSWERS, tfi_call, kdf_call, seal_call, open_call,
          salts_generated, entropy_call, kdf_again, aead_call, wire_call,
          xor_call, reopen_call, binom_call>>

---------------------------------------------------------------------------
(* Bounds of the model *)

NumNonces == 1       \* nonce values 0..NumNonces-1 the CSPRNG can return
MaxSecretLen == 1    \* longest String secret
MaxIterLen == 3      \* longest iterator handed to try_from_iter
MaxAnswerLen == 4    \* longest answer spelled over AnswerAlphabet
MaxSaltsGenerated == 2   \* salts the callers generate at most
MaxPlaintextLen == 3 \* longest plaintext handed to encrypt
MaxQuestionCount == 63   \* largest N and M handed to n_choose_m

---------------------------------------------------------------------------
(* Result<T>: Ok, Err, or a panic (assert!/unwrap) that unwinds the caller *)

Ok(v) == [tag |-> "Ok", value |-> v]

Err(e) == [tag |-> "Err", error |-> e]

Panicked(site) == [tag |-> "Panic", at |-> site]

NotCalled == [tag |-> "NotCalled"]

IsOk(r) == r.tag = "Ok"

IsErr(r) == r.tag = "Err"

InvalidQuestionsAndAnswersCount(expected, found) ==
    [kind |-> "InvalidQuestionsAndAnswersCount", expected |-> expected, found |-> found]

InvalidQuestionsAndSaltCount(expected, found) ==
    [kind |-> "InvalidQuestionsAndSaltCount", expected |-> expected, found |-> found]

UnrelatedQuestionProvided(question) ==
    [kind |-> "UnrelatedQuestionProvided", question |-> question]

QuestionsMustBeGreaterThanOrEqualAnswers(questions, answers) ==
    [kind |-> "QuestionsMustBeGreaterThanOrEqualAnswers", questions |-> questions, answers |-> answers]

AESDecryptionFailed == [kind |-> "AESDecryptionFailed"]

InvalidAESBytesTooShort(expected_at_least, found) ==
    [kind |-> "InvalidAESBytesTooShort", expected_at_least |-> expected_at_least, found |-> found]

AnswersToSecurityQuestionsCannotBeEmpty == [kind |-> "AnswersToSecurityQuestionsCannotBeEmpty"]

FailedToConvertSecretToBytes(underlying) ==
    [kind |-> "FailedToConvertSecretToBytes", underlying |-> underlying]

FailedToConvertBytesToSecret(underlying) ==
    [kind |-> "FailedToConvertBytesToSecret", underlying |-> underlying]

FailedToDecryptSealedSecret == [kind |-> "FailedToDecryptSealedSecret"]

InvalidByteCount(expected, found) ==
    [kind |-> "InvalidByteCount", expected |-> expected, found |-> found]

InvalidHex(underlying) == [kind |-> "InvalidHex", underlying |-> underlying]

\* impl Display for Error (thiserror): the text of the errors that reading a
\* container can meet, in fragments
ErrorToString(error) ==
    CASE error.kind = "InvalidQuestionsAndSaltCount" ->
            <<"Invalid questions and salt count: expected ", error.expected,
              ", found ", error.found>>
      [] error.kind = "InvalidByteCount" ->
            <<"Invalid byte count: expected ", error.expected, ", found ", error.found>>
      [] error.kind = "InvalidHex" -> <<"Invalid hex: ", error.underlying>>

\* serde::de::Error::custom(msg): the error of the deserializer, holding
\* msg.to_string()
serde_custom(error) == [kind |-> "serde::de::Error", msg |-> ErrorToString(error)]

serde_error(msg) == [kind |-> "serde::de::Error", msg |-> <<msg>>]

---------------------------------------------------------------------------
(* Sequence helpers: Vec / IndexSet / iterator adaptors *)

Range(s) == {s[i] : i \in 1..Len(s)}

Map(s, Op(_)) == [i \in 1..Len(s) |-> Op(s[i])]

\* collect::<IndexSet<_>>(): drop every element equal to an earlier one,
\* keep first-occurrence order.
RECURSIVE IndexSetOf(_)
IndexSetOf(s) ==
    IF s = <<>> THEN <<>>
    ELSE LET front == IndexSetOf(SubSeq(s, 1, Len(s) - 1))
             last == s[Len(s)]
         IN IF last \in Range(front) THEN front ELSE Append(front, last)

\* All sequences over S of length 0..n
RECURSIVE SeqsUpTo(_, _)
SeqsUpTo(S, n) ==
    IF n = 0 THEN {<<>>}
    ELSE LET shorter == SeqsUpTo(S, n - 1)
         IN shorter \cup {Append(s, x) : s \in {t \in shorter : Len(t) = n - 1}, x \in S}

\* All sequences over S of length exactly n
SeqsOfLen(S, n) == {s \in SeqsUpTo(S, n) : Len(s) = n}

---------------------------------------------------------------------------
(* Data model *)

\* SecurityQuestion: structural equality over all fields; `id` stands for
\* the fields that are not the prompt (id, version, kind, format).
SecurityQuestion(id, question) == [id |-> id, question |-> question]

Q1 == SecurityQuestion(1, "p")

Q2 == SecurityQuestion(1, "q")

Q3 == SecurityQuestion(1, "r")

\* the prompt of Q1 under another id
Q4 == SecurityQuestion(2, "p")

Questions == {Q1, Q2, Q3, Q4}

Salts == {1, 2}

\* impl Display for SecurityQuestion: prints every field
QuestionToString(q) == <<"SecurityQuestion", q.id, q.question>>

\* impl AsRef<str> for SecurityQuestion: the prompt text only
QuestionAsRef(q) == q.question

SecurityQuestionAnswerAndSalt(q, a, s) == [question |-> q, answer |-> a, salt |-> s]

SecurityQuestionAndSalt(q, s) == [question |-> q, salt |-> s]

\* A projection that puts a salt of its own in the place of the entry's
question_and_generated_salt(qa) ==
    SecurityQuestionAndSalt(qa.question, qa.salt + salts_generated + 1)

\* SecurityQuestionAnswerAndSalt::question_and_salt
question_and_salt(qa) == SecurityQuestionAndSalt(qa.question, qa.salt)

---------------------------------------------------------------------------
(* Fixed-size collections *)

\* A try_from_iter that counts the entries of the iterator as handed in
try_from_iter_counting_input(n, qas) ==
    IF Len(qas) = n THEN Ok(IndexSetOf(qas))
    ELSE Err(InvalidQuestionsAndAnswersCount(n, Len(qas)))

\* SecurityQuestionsAnswersAndSalts::<N>::try_from_iter
SecurityQuestionsAnswersAndSalts_try_from_iter(n, qas) ==
    LET set == IndexSetOf(qas)
        len == Len(set)
    IN IF len = n THEN Ok(set)
       ELSE Err(InvalidQuestionsAndAnswersCount(n, len))

\* A try_from_iter of questions and salts that counts the entries of the
\* iterator as handed in
salts_try_from_iter_counting_input(n, qas) ==
    IF Len(qas) = n THEN Ok(IndexSetOf(qas))
    ELSE Err(InvalidQuestionsAndSaltCount(n, Len(qas)))

\* SecurityQuestionsAndSalts::<N>::try_from_iter
SecurityQuestionsAndSalts_try_from_iter(n, qas) ==
    LET set == IndexSetOf(qas)
        len == Len(set)
    IN IF len = n THEN Ok(set)
       ELSE Err(InvalidQuestionsAndSaltCount(n, len))

---------------------------------------------------------------------------
(* Answer canonicalisation and sub-KDF A *)

SECURITY_QUESTIONS_TRIMMED_CHARS ==
    {" ", "\t", "\n", ".", "!", "?", "'", "\"", "U+2018", "U+2019", "U+FF07"}

\* char::to_lowercase on the alphabet of the model
LowercaseChar(c) ==
    CASE c = "A" -> "a"
      [] c = "B" -> "b"
      [] c = "U+03A3" -> "U+03C3"
      [] OTHER -> c

\* Unicode property Cased, on the alphabet of the model
Cased(c) == c \in {"a", "b", "A", "B", "s", "p", "q", "r", "U+03A3", "U+03C3", "U+03C2"}

\* Unicode property Case_Ignorable, on the alphabet of the model
Case_Ignorable(c) == c \in {".", "'", "U+2018", "U+2019", "U+FF07"}

\* skip the case-ignorable characters of str from position i in direction
\* step; is the first character after them a cased one?
RECURSIVE case_ignorable_then_cased(_, _, _)
case_ignorable_then_cased(str, i, step) ==
    IF i < 1 \/ i > Len(str) THEN FALSE
    ELSE IF Case_Ignorable(str[i]) THEN case_ignorable_then_cased(str, i + step, step)
    ELSE Cased(str[i])

\* str::to_lowercase maps capital sigma (U+03A3) to final sigma (U+03C2) at
\* the end of a word and to small sigma (U+03C3) elsewhere
map_uppercase_sigma(str, i) ==
    IF case_ignorable_then_cased(str, i - 1, -1) /\ ~case_ignorable_then_cased(str, i + 1, 1)
    THEN "U+03C2" ELSE "U+03C3"

to_lowercase(str) ==
    [i \in 1..Len(str) |-> IF str[i] = "U+03A3" THEN map_uppercase_sigma(str, i)
                           ELSE LowercaseChar(str[i])]

\* A filter that knows the ASCII characters of the list only
NotTrimmedAscii(c) == c \notin {" ", "\t", "\n", ".", "!", "?", "'", "\""}

NotTrimmed(c) == c \notin SECURITY_QUESTIONS_TRIMMED_CHARS

trim_answer(answer) == SelectSeq(to_lowercase(answer), NotTrimmed)

\* str::as_bytes: the UTF-8 encoding of one character
Utf8Char(c) ==
    CASE c = "a" -> <<97>>
      [] c = "b" -> <<98>>
      [] c = "A" -> <<65>>
      [] c = "B" -> <<66>>
      [] c = "s" -> <<115>>
      [] c = "p" -> <<112>>
      [] c = "q" -> <<113>>
      [] c = "r" -> <<114>>
      [] c = " " -> <<32>>
      [] c = "\t" -> <<9>>
      [] c = "\n" -> <<10>>
      [] c = "." -> <<46>>
      [] c = "!" -> <<33>>
      [] c = "?" -> <<63>>
      [] c = "'" -> <<39>>
      [] c = "\"" -> <<34>>
      [] c = "U+2018" -> <<226, 128, 152>>
      [] c = "U+2019" -> <<226, 128, 153>>
      [] c = "U+FF07" -> <<239, 188, 135>>
      [] c = "U+03A3" -> <<206, 163>>
      [] c = "U+03C3" -> <<207, 131>>
      [] c = "U+03C2" -> <<207, 130>>

RECURSIVE as_bytes(_)
as_bytes(str) ==
    IF str = <<>> THEN <<>> ELSE Utf8Char(Head(str)) \o as_bytes(Tail(str))

bytes_from_answer(answer) ==
    IF answer = <<>> THEN Err(AnswersToSecurityQuestionsCannotBeEmpty)
    ELSE Ok(as_bytes(trim_answer(answer)))

bytes_from_question(question) == as_bytes(<<QuestionAsRef(question)>>)

\* An HKDF that mixes in what the CSPRNG has been asked for so far
HkdfSeeded(salt, ikm, info) == {<<salt, ikm, info, salts_generated>>}

\* Hkdf::<Sha256>::new(Some(salt), ikm).expand(info, 32 bytes)
Hkdf(salt, ikm, info) == {<<salt, ikm, info>>}

derive_entropies_from_question_answer_and_salt(qas) ==
    LET ikm == bytes_from_answer(qas.answer)
    IN IF IsErr(ikm) THEN ikm
       ELSE Ok(Hkdf(qas.salt, ikm.value, bytes_from_question(qas.question)))

---------------------------------------------------------------------------
(* Sub-KDF B: one key per M-combination of the entropies *)

\* Exactly32Bytes::xor
xor(a, b) == (a \ b) \cup (b \ a)

\* The combinations with the later positions first
RECURSIVE combinations_reversed(_, _, _)
combinations_reversed(lo, hi, m) ==
    IF m = 0 THEN << <<>> >>
    ELSE IF hi - lo + 1 < m THEN <<>>
    ELSE LET withLo == combinations_reversed(lo + 1, hi, m - 1)
         IN combinations_reversed(lo + 1, hi, m)
               \o [i \in 1..Len(withLo) |-> <<lo>> \o withLo[i]]

\* Itertools::combinations(m) over positions lo..hi, lexicographic
RECURSIVE combinations(_, _, _)
combinations(lo, hi, m) ==
    IF m = 0 THEN << <<>> >>
    ELSE IF hi - lo + 1 < m THEN <<>>
    ELSE LET withLo == combinations(lo + 1, hi, m - 1)
         IN [i \in 1..Len(withLo) |-> <<lo>> \o withLo[i]] \o combinations(lo + 1, hi, m)

\* A reduce that keeps its accumulator: the first entropy of the combination
FirstOfCombination(entropies, combination) == entropies[combination[1]]

\* reduce(|acc, x| acc.xor(&x)) over a non-empty combination
RECURSIVE XorAll(_, _)
XorAll(entropies, combination) ==
    IF Len(combination) = 1 THEN entropies[combination[1]]
    ELSE xor(XorAll(entropies, SubSeq(combination, 1, Len(combination) - 1)),
             entropies[combination[Len(combination)]])

RECURSIVE n_choose_m_fold(_, _, _, _)
n_choose_m_fold(n, m, i, acc) ==
    IF i >= m THEN acc
    ELSE n_choose_m_fold(n, m, i + 1, (acc * (n - i)) \div (i + 1))

n_choose_m(n, m) ==
    IF m > n THEN Err(QuestionsMustBeGreaterThanOrEqualAnswers(n, m))
    ELSE Ok(n_choose_m_fold(n, m, 0, 1))

\* usize of a 64-bit target, for the values n_choose_m goes through with
\* large N: a number is its limbs in base 2^16, least significant first,
\* without leading zero limbs
LimbBase == 65536

UsizeLimbs == 4

RECURSIVE TrimLimbs(_)
TrimLimbs(a) ==
    IF a = <<>> THEN <<>>
    ELSE IF a[Len(a)] = 0 THEN TrimLimbs(SubSeq(a, 1, Len(a) - 1))
    ELSE a

\* a * k + carry for a small k, in full
RECURSIVE MulSmall(_, _, _)
MulSmall(a, k, carry) ==
    IF a = <<>>
    THEN IF carry = 0 THEN <<>> ELSE <<carry % LimbBase>> \o MulSmall(<<>>, k, carry \div LimbBase)
    ELSE LET t == Head(a) * k + carry
         IN <<t % LimbBase>> \o MulSmall(Tail(a), k, t \div LimbBase)

\* quotient and remainder of a by a small k
RECURSIVE DivSmall(_, _)
DivSmall(a, k) ==
    IF a = <<>> THEN [q |-> <<>>, r |-> 0]
    ELSE LET high == DivSmall(Tail(a), k)
             cur == high.r * LimbBase + Head(a)
         IN [q |-> <<cur \div k>> \o high.q, r |-> cur % k]

\* the low 64 bits
WrapUsize(a) == TrimLimbs(SubSeq(a, 1, IF Len(a) < UsizeLimbs THEN Len(a) ELSE UsizeLimbs))

\* (0..M).fold(1, |acc, i| acc * (N - i) / (i + 1)) in usize: a product that
\* does not fit panics where overflow checks are compiled in and wraps
\* where they are not
RECURSIVE n_choose_m_fold_usize(_, _, _, _, _)
n_choose_m_fold_usize(n, m, i, acc, overflow_checks) ==
    IF i >= m THEN Ok(acc)
    ELSE LET product == TrimLimbs(MulSmall(acc, n - i, 0))
         IN IF Len(product) > UsizeLimbs /\ overflow_checks
            THEN Panicked("attempt to multiply with overflow")
            ELSE n_choose_m_fold_usize(n, m, i + 1,
                     TrimLimbs(DivSmall(WrapUsize(product), i + 1).q), overflow_checks)

\* n_choose_m::<N, M>() in usize
n_choose_m_usize(n, m, overflow_checks) ==
    IF m > n THEN Err(QuestionsMustBeGreaterThanOrEqualAnswers(n, m))
    ELSE n_choose_m_fold_usize(n, m, 0, <<1>>, overflow_checks)

\* An EncryptionKeys::new that takes whatever keys are left after the IndexSet
EncryptionKeys_unchecked(n, m, keys) == Ok(IndexSetOf(keys))

\* An EncryptionKeys::new that rejects only more keys than C(N, M)
EncryptionKeys_truncating(n, m, keys) ==
    LET set == IndexSetOf(keys)
        expected_len == n_choose_m(n, m)
    IN IF IsErr(expected_len) THEN expected_len
       ELSE IF Len(set) > expected_len.value
            THEN Err(InvalidQuestionsAndAnswersCount(expected_len.value, Len(set)))
       ELSE Ok(set)

\* EncryptionKeys::<N, M>::new
EncryptionKeys_new(n, m, keys) ==
    LET set == IndexSetOf(keys)
        len == Len(set)
        expected_len == n_choose_m(n, m)
    IN IF IsErr(expected_len) THEN expected_len
       ELSE IF len # expected_len.value
            THEN Err(InvalidQuestionsAndAnswersCount(expected_len.value, len))
       ELSE Ok(set)

encryption_keys_from_xor_between_all_combinations(n, m, entropies) ==
    LET combos == combinations(1, Len(entropies), m)
    IN IF \E i \in 1..Len(combos) : combos[i] = <<>>
       THEN Panicked("reduce(..).unwrap() on an empty combination")
       ELSE EncryptionKeys_new(n, m,
                IndexSetOf([i \in 1..Len(combos) |-> XorAll(entropies, combos[i])]))

derive_encryption_keys_from(n, m, entropies) ==
    IF ~(n >= m) THEN Panicked("assert!(QUESTION_COUNT >= MIN_CORRECT_ANSWERS)")
    ELSE encryption_keys_from_xor_between_all_combinations(n, m, entropies)

\* collect::<Result<Vec<_>>>(): the first Err in iteration order, else all values
FirstErr(results) ==
    LET bad == {i \in 1..Len(results) : IsErr(results[i])}
    IN IF bad = {} THEN Ok([i \in 1..Len(results) |-> results[i].value])
       ELSE results[CHOOSE i \in bad : \A j \in bad : i <= j]

\* SecurityQuestionsKDFSchemeVersion1::derive_encryption_keys_from_questions_answers_and_salts
derive_encryption_keys_from_questions_answers_and_salts(n, m, qas) ==
    LET entropies == FirstErr(Map(qas, derive_entropies_from_question_answer_and_salt))
    IN IF IsErr(entropies) THEN entropies
       ELSE derive_encryption_keys_from(n, m, entropies.value)

---------------------------------------------------------------------------
(* Secrets: the IsSecret implementations of the crate and of its tests *)

CharsOfBytes == {"a", "b", "A", "B", "s", "p", "q", "r", " ", "\t", "\n", ".", "!", "?", "'", "\"",
                 "U+2018", "U+2019", "U+FF07", "U+03A3", "U+03C3", "U+03C2"}

\* String::from_utf8 on byte strings that encode characters of the model;
\* any other byte string is reported as invalid UTF-8.
RECURSIVE from_utf8(_)
from_utf8(bytes) ==
    IF bytes = <<>> THEN Ok(<<>>)
    ELSE LET fits == {c \in CharsOfBytes :
                        /\ Len(Utf8Char(c)) <= Len(bytes)
                        /\ SubSeq(bytes, 1, Len(Utf8Char(c))) = Utf8Char(c)}
         IN IF fits = {} THEN Err("invalid utf-8 sequence")
            ELSE LET c == CHOOSE x \in fits : TRUE
                     rest == from_utf8(SubSeq(bytes, Len(Utf8Char(c)) + 1, Len(bytes)))
                 IN IF IsErr(rest) THEN rest ELSE Ok(<<c>> \o rest.value)

StringSecret(text) == [kind |-> "String", text |-> text]

\* tests::seal_secret_type_fails_to_serialize_to_bytes
FailsToBytes == [kind |-> "FailsToBytes", text |-> <<>>]

\* tests::open_sealed_secret_type_fails_to_deserialize_from_bytes
FailsFromBytes == [kind |-> "FailsFromBytes", text |-> <<>>]

\* IsSecret::to_bytes
to_bytes(secret) ==
    CASE secret.kind = "String" -> Ok(as_bytes(secret.text))
      [] secret.kind = "FailsToBytes" -> Err("meant to fail for test")
      [] secret.kind = "FailsFromBytes" -> Ok(<<222, 173, 190, 239>>)

\* IsSecret::from_bytes of the secret type `kind`
from_bytes(kind, bytes) ==
    CASE kind = "String" ->
            LET text == from_utf8(bytes)
            IN IF IsErr(text) THEN text ELSE Ok(StringSecret(text.value))
      [] kind = "FailsToBytes" -> Panicked("unreachable!()")
      [] kind = "FailsFromBytes" -> Err("meant to fail for test")

---------------------------------------------------------------------------
(* AEAD scheme version 1: AES-256-GCM *)

AUTH_TAG_LEN == 16

NONCE_LEN == 12

LOWER_BOUND_LEN == AUTH_TAG_LEN + NONCE_LEN + 1

\* The output of AES-GCM under (key, nonce): ciphertext and tag, as long as
\* the plaintext plus the tag; it verifies under that key and nonce only.
AesGcmEncrypt(key, nonce, plaintext) ==
    [key |-> key, nonce |-> nonce, plaintext |-> plaintext]

CipherTextLen(cipher_text) == Len(cipher_text.plaintext) + AUTH_TAG_LEN

\* A byte string is either nonce || cipher_text of a sealed box, or any
\* other bytes, written out
Raw(bytes) == [raw |-> bytes]

IsRaw(bytes) == "raw" \in DOMAIN bytes

\* Length of a byte string
ByteLen(bytes) ==
    IF IsRaw(bytes) THEN Len(bytes.raw)
    ELSE NONCE_LEN + CipherTextLen(bytes.cipher_text)

\* AesGcmSealedBox::combined
combined(box) ==
    LET bytes == [nonce |-> box.nonce, cipher_text |-> box.cipher_text]
    IN IF ~(ByteLen(bytes) >= LOWER_BOUND_LEN)
       THEN Panicked("assert!(combined.len() >= Self::LOWER_BOUND_LEN)")
       ELSE Ok(bytes)

\* the split of a byte string into its first NONCE_LEN bytes and the rest
SplitAtNonce(bytes) ==
    IF IsRaw(bytes)
    THEN [nonce |-> SubSeq(bytes.raw, 1, NONCE_LEN),
          cipher_text |-> Raw(SubSeq(bytes.raw, NONCE_LEN + 1, Len(bytes.raw)))]
    ELSE [nonce |-> bytes.nonce, cipher_text |-> bytes.cipher_text]

\* A TryFrom that splits without looking at the length
AesGcmSealedBox_try_from_unchecked(bytes) ==
    IF ByteLen(bytes) < NONCE_LEN THEN Panicked("range end index out of range for slice")
    ELSE Ok(SplitAtNonce(bytes))

\* impl TryFrom<&[u8]> for AesGcmSealedBox
AesGcmSealedBox_try_from(bytes) ==
    IF ByteLen(bytes) < LOWER_BOUND_LEN
    THEN Err(InvalidAESBytesTooShort(LOWER_BOUND_LEN, ByteLen(bytes)))
    ELSE Ok(SplitAtNonce(bytes))

\* EncryptionScheme::encrypt (Version1), with the nonce the CSPRNG returned
encrypt(plaintext, encryption_key, nonce) ==
    combined([nonce |-> nonce, cipher_text |-> AesGcmEncrypt(encryption_key, nonce, plaintext)])

\* EncryptionScheme::decrypt (Version1)
decrypt(cipher_text, decryption_key) ==
    LET box == AesGcmSealedBox_try_from(cipher_text)
    IN IF ~IsOk(box) THEN box
       ELSE IF IsRaw(box.value.cipher_text) THEN Err(AESDecryptionFailed)
       ELSE IF /\ box.value.cipher_text.key = decryption_key
               /\ box.value.cipher_text.nonce = box.value.nonce
            THEN Ok(box.value.cipher_text.plaintext)
       ELSE Err(AESDecryptionFailed)

---------------------------------------------------------------------------
(* The sealed container *)

\* A conversion that falls back to no bytes when to_bytes fails
secret_bytes_or_default(secret) ==
    IF IsErr(to_bytes(secret)) THEN Ok(<<>>) ELSE to_bytes(secret)

\* secret.to_bytes().map_err(|e| FailedToConvertSecretToBytes { underlying: e.to_string() })
secret_bytes_of(secret) ==
    IF IsErr(to_bytes(secret))
    THEN Err(FailedToConvertSecretToBytes(to_bytes(secret).error))
    ELSE to_bytes(secret)

\* SecurityQuestionsSealed::with_schemes (seal, encrypt); nonces[i] is the
\* nonce drawn for the i-th encryption.
with_schemes(n, m, secret, with, nonces) ==
    LET security_questions_and_salts ==
            SecurityQuestionsAndSalts_try_from_iter(n, IndexSetOf(Map(with, question_and_salt)))
        encryption_keys == derive_encryption_keys_from_questions_answers_and_salts(n, m, with)
        secret_bytes == secret_bytes_of(secret)
    IN IF ~IsOk(security_questions_and_salts) THEN security_questions_and_salts
       ELSE IF ~IsOk(encryption_keys) THEN encryption_keys
       ELSE IF IsErr(secret_bytes) THEN secret_bytes
       ELSE LET boxes == [i \in 1..Len(encryption_keys.value) |->
                            encrypt(secret_bytes.value, encryption_keys.value[i], nonces[i])]
                aborted == {i \in 1..Len(boxes) : ~IsOk(boxes[i])}
            IN IF aborted # {} THEN boxes[CHOOSE i \in aborted : \A j \in aborted : i <= j]
               ELSE Ok([phantom |-> secret.kind,
                        security_questions_and_salts |-> security_questions_and_salts.value,
                        kdf_scheme |-> "Version1",
                        encryption_scheme |-> "Version1",
                        encryptions |-> IndexSetOf([i \in 1..Len(boxes) |-> boxes[i].value])])

\* A relevance check that looks at the prompt of a question only
are_all_prompts_relevant(sealed, answers_to_question) ==
    LET saved == sealed.security_questions_and_salts
        irrelevant == {i \in 1..Len(answers_to_question) :
                         ~\E j \in 1..Len(saved) :
                             QuestionAsRef(saved[j].question)
                                 = QuestionAsRef(answers_to_question[i].question)}
    IN IF irrelevant # {}
       THEN LET first == CHOOSE i \in irrelevant : \A j \in irrelevant : i <= j
            IN Err(UnrelatedQuestionProvided(QuestionToString(answers_to_question[first].question)))
       ELSE Ok(<<>>)

\* A relevance check that wants every question in the place the container
\* has it
are_all_answers_in_place(sealed, answers_to_question) ==
    LET saved == sealed.security_questions_and_salts
        irrelevant == {i \in 1..Len(answers_to_question) :
                         i > Len(saved) \/ saved[i].question # answers_to_question[i].question}
    IN IF irrelevant # {}
       THEN LET first == CHOOSE i \in irrelevant : \A j \in irrelevant : i <= j
            IN Err(UnrelatedQuestionProvided(QuestionToString(answers_to_question[first].question)))
       ELSE Ok(<<>>)

\* SecurityQuestionsSealed::are_all_answers_relevant
are_all_answers_relevant(sealed, answers_to_question) ==
    LET saved == sealed.security_questions_and_salts
        irrelevant == {i \in 1..Len(answers_to_question) :
                         ~\E j \in 1..Len(saved) :
                             saved[j].question = answers_to_question[i].question}
    IN IF irrelevant # {}
       THEN LET first == CHOOSE i \in irrelevant : \A j \in irrelevant : i <= j
            IN Err(UnrelatedQuestionProvided(QuestionToString(answers_to_question[first].question)))
       ELSE Ok(<<>>)

\* One (key, ciphertext) pair of the loops of open: what decrypt and
\* from_bytes returned for it.
TryPair(sealed, decryption_key, encrypted) ==
    LET decrypted == decrypt(encrypted, decryption_key)
    IN [decrypted |-> IsOk(decrypted),
        secret |-> IF IsOk(decrypted) THEN from_bytes(sealed.phantom, decrypted.value)
                   ELSE NotCalled]

\* An end of open that forgets the reconstruction failures it saw
open_failure_forgetful(failure) == Err(FailedToDecryptSealedSecret)

\* The end of open, once every pair has been tried: failure is
\* successful_decryption_failure_deserializing.
open_failure(failure) ==
    IF failure.tag = "Some" THEN Err(failure.value)
    ELSE Err(FailedToDecryptSealedSecret)

\* An open that gives up at the first pair that does not return the secret
OpenFirstPairOnly(sealed, decryption_keys, p, failure, attempts) ==
    LET tried == TryPair(sealed, decryption_keys[1], sealed.encryptions[1])
        seen == <<[key |-> 1, encrypted |-> 1, decrypted |-> tried.decrypted,
                   secret |-> tried.secret]>>
    IN [result |-> IF tried.decrypted /\ tried.secret.tag = "Ok" THEN Ok(tried.secret.value)
                   ELSE Err(FailedToDecryptSealedSecret),
        attempts |-> seen]

\* Loops that go on after a pair gave the secret and return it at the end
RECURSIVE OpenLoopToTheEnd(_, _, _, _, _)
OpenLoopToTheEnd(sealed, decryption_keys, p, failure, attempts) ==
    LET encs == sealed.encryptions
    IN IF p > Len(decryption_keys) * Len(encs)
       THEN [result |-> IF failure.tag = "Found" THEN Ok(failure.value)
                        ELSE open_failure(failure),
             attempts |-> attempts]
       ELSE LET k == ((p - 1) \div Len(encs)) + 1
                e == ((p - 1) % Len(encs)) + 1
                tried == TryPair(sealed, decryption_keys[k], encs[e])
                seen == Append(attempts, [key |-> k, encrypted |-> e,
                                          decrypted |-> tried.decrypted,
                                          secret |-> tried.secret])
            IN IF ~tried.decrypted \/ failure.tag = "Found"
               THEN OpenLoopToTheEnd(sealed, decryption_keys, p + 1, failure, seen)
               ELSE IF tried.secret.tag = "Ok"
                    THEN OpenLoopToTheEnd(sealed, decryption_keys, p + 1,
                                          [tag |-> "Found", value |-> tried.secret.value], seen)
               ELSE OpenLoopToTheEnd(sealed, decryption_keys, p + 1,
                                     [tag |-> "Some",
                                      value |-> FailedToConvertBytesToSecret(tried.secret.error)],
                                     seen)

\* Loops that return the first reconstruction failure at once
RECURSIVE OpenLoopFailFast(_, _, _, _, _)
OpenLoopFailFast(sealed, decryption_keys, p, failure, attempts) ==
    LET encs == sealed.encryptions
    IN IF p > Len(decryption_keys) * Len(encs)
       THEN [result |-> open_failure(failure), attempts |-> attempts]
       ELSE LET k == ((p - 1) \div Len(encs)) + 1
                e == ((p - 1) % Len(encs)) + 1
                tried == TryPair(sealed, decryption_keys[k], encs[e])
                seen == Append(attempts, [key |-> k, encrypted |-> e,
                                          decrypted |-> tried.decrypted,
                                          secret |-> tried.secret])
            IN IF ~tried.decrypted
               THEN OpenLoopFailFast(sealed, decryption_keys, p + 1, failure, seen)
               ELSE IF tried.secret.tag = "Ok"
                    THEN [result |-> Ok(tried.secret.value), attempts |-> seen]
               ELSE [result |-> Err(FailedToConvertBytesToSecret(tried.secret.error)),
                     attempts |-> seen]

\* The loops of open from pair number p on (keys outer, ciphertexts inner)
RECURSIVE OpenLoop(_, _, _, _, _)
OpenLoop(sealed, decryption_keys, p, failure, attempts) ==
    LET encs == sealed.encryptions
    IN IF p > Len(decryption_keys) * Len(encs)
       THEN [result |-> open_failure(failure), attempts |-> attempts]
       ELSE LET k == ((p - 1) \div Len(encs)) + 1
                e == ((p - 1) % Len(encs)) + 1
                tried == TryPair(sealed, decryption_keys[k], encs[e])
                seen == Append(attempts, [key |-> k, encrypted |-> e,
                                          decrypted |-> tried.decrypted,
                                          secret |-> tried.secret])
            IN IF ~tried.decrypted THEN OpenLoop(sealed, decryption_keys, p + 1, failure, seen)
               ELSE IF tried.secret.tag = "Ok"
                    THEN [result |-> Ok(tried.secret.value), attempts |-> seen]
               ELSE IF tried.secret.tag = "Panic"
                    THEN [result |-> tried.secret, attempts |-> seen]
               ELSE OpenLoop(sealed, decryption_keys, p + 1,
                             [tag |-> "Some",
                              value |-> FailedToConvertBytesToSecret(tried.secret.error)],
                             seen)

\* SecurityQuestionsSealed::open (decrypt)
open(n, m, sealed, with) ==
    LET relevant == are_all_answers_relevant(sealed, with)
        decryption_keys == derive_encryption_keys_from_questions_answers_and_salts(n, m, with)
    IN IF IsErr(relevant) THEN [result |-> relevant, attempts |-> <<>>]
       ELSE IF ~IsOk(decryption_keys) THEN [result |-> decryption_keys, attempts |-> <<>>]
       ELSE OpenLoop(sealed, decryption_keys.value, 1, [tag |-> "None"], <<>>)

---------------------------------------------------------------------------
(* The cryptographic operations a call performs, in the order it performs them *)

\* derive_encryption_keys_from_questions_answers_and_salts: map and collect
\* go through the entries one by one, each with its emptiness check and
\* then its HKDF, and stop at the first Err; the XORs follow when every
\* entropy was derived
crypto_ops_of_derive(n, m, qas) ==
    LET entropies == Map(qas, derive_entropies_from_question_answer_and_salt)
        failed == {i \in 1..Len(qas) : IsErr(entropies[i])}
        derived == IF failed = {} THEN Len(qas)
                   ELSE (CHOOSE i \in failed : \A j \in failed : i <= j) - 1
        combos == combinations(1, Len(qas), m)
    IN [i \in 1..derived |-> [op |-> "HKDF", at |-> i]]
          \o (IF failed = {} /\ n >= m /\ m >= 1
              THEN [c \in 1..Len(combos) |-> [op |-> "XOR", at |-> c]]
              ELSE <<>>)

\* with_schemes: nothing before the questions and salts are collected, then
\* the derivation, then one encrypt per key up to the first that aborts
crypto_ops_of_seal(n, m, secret, with) ==
    LET security_questions_and_salts ==
            SecurityQuestionsAndSalts_try_from_iter(n, IndexSetOf(Map(with, question_and_salt)))
        encryption_keys == derive_encryption_keys_from_questions_answers_and_salts(n, m, with)
        secret_bytes == secret_bytes_of(secret)
    IN IF ~IsOk(security_questions_and_salts) THEN <<>>
       ELSE crypto_ops_of_derive(n, m, with)
               \o (IF ~IsOk(encryption_keys) \/ ~IsOk(secret_bytes) THEN <<>>
                   ELSE IF secret_bytes.value = <<>> THEN <<[op |-> "AEAD", at |-> 1]>>
                   ELSE [k \in 1..Len(encryption_keys.value) |-> [op |-> "AEAD", at |-> k]])

\* open: nothing before the relevance check, then the derivation, then one
\* decrypt per pair tried
crypto_ops_of_open(n, m, sealed, with) ==
    IF IsErr(are_all_answers_relevant(sealed, with)) THEN <<>>
    ELSE crypto_ops_of_derive(n, m, with)
            \o [p \in 1..Len(open(n, m, sealed, with).attempts) |-> [op |-> "AEAD", at |-> p]]

---------------------------------------------------------------------------
(* Wire format: the container as JSON *)

\* A byte of a Vec<u8>: a value 0..255, or the i-th byte of what AES-GCM
\* put out
Byte(v) == [v |-> v]

CipherByte(cipher_text, i) == [cipher_text |-> cipher_text, i |-> i]

IsKnown(byte) == "v" \in DOMAIN byte

\* The salts and nonces of the model are numbers standing for 32 and 12
\* bytes: the big-endian bytes of the number
RECURSIVE to_be_bytes(_, _)
to_be_bytes(value, len) ==
    IF len = 0 THEN <<>>
    ELSE Append(to_be_bytes(value \div 256, len - 1), Byte(value % 256))

RECURSIVE from_be_bytes(_)
from_be_bytes(bytes) ==
    IF bytes = <<>> THEN 0
    ELSE 256 * from_be_bytes(SubSeq(bytes, 1, Len(bytes) - 1)) + bytes[Len(bytes)].v

\* The Vec<u8> of a byte string, byte by byte
to_vec(bytes) ==
    IF IsRaw(bytes) THEN [i \in 1..Len(bytes.raw) |-> Byte(bytes.raw[i])]
    ELSE to_be_bytes(bytes.nonce, NONCE_LEN)
            \o [i \in 1..CipherTextLen(bytes.cipher_text) |->
                    CipherByte(bytes.cipher_text, i)]

\* nonce bytes followed by all the bytes of one AES-GCM output, in order
IsSealedBoxBytes(vec) ==
    /\ Len(vec) >= NONCE_LEN + AUTH_TAG_LEN
    /\ \A i \in 1..NONCE_LEN : IsKnown(vec[i])
    /\ ~IsKnown(vec[NONCE_LEN + 1])
    /\ LET cipher_text == vec[NONCE_LEN + 1].cipher_text
       IN /\ Len(vec) = NONCE_LEN + CipherTextLen(cipher_text)
          /\ \A i \in 1..CipherTextLen(cipher_text) :
                vec[NONCE_LEN + i] = CipherByte(cipher_text, i)

\* The byte string a Vec<u8> holds
from_vec(vec) ==
    IF \A i \in 1..Len(vec) : IsKnown(vec[i]) THEN Raw([i \in 1..Len(vec) |-> vec[i].v])
    ELSE IF IsSealedBoxBytes(vec)
         THEN [nonce |-> from_be_bytes(SubSeq(vec, 1, NONCE_LEN)),
               cipher_text |-> vec[NONCE_LEN + 1].cipher_text]
    ELSE Raw(vec)

HexDigits == <<"0", "1", "2", "3", "4", "5", "6", "7", "8", "9", "a", "b", "c", "d", "e", "f">>

\* A character of a hex string: a digit, or the high or low digit of a byte
\* of AES-GCM output
HexChar(byte, high) ==
    IF IsKnown(byte)
    THEN [digit |-> HexDigits[(IF high THEN byte.v \div 16 ELSE byte.v % 16) + 1]]
    ELSE [half |-> IF high THEN "hi" ELSE "lo", of |-> byte]

\* hex::encode: two lowercase digits per byte
hex_encode(vec) ==
    [k \in 1..(2 * Len(vec)) |-> HexChar(vec[(k + 1) \div 2], k % 2 = 1)]

\* the value of a digit; upper case is read as well
DigitValue(c) ==
    IF \E v \in 1..16 : HexDigits[v] = c THEN (CHOOSE v \in 1..16 : HexDigits[v] = c) - 1
    ELSE CASE c = "A" -> 10 [] c = "B" -> 11 [] c = "C" -> 12 [] c = "D" -> 13
           [] c = "E" -> 14 [] c = "F" -> 15 [] OTHER -> -1

\* the character at position k of str is a hex digit of the byte it is in
IsHexAt(str, k) ==
    LET c == str[k]
        high == k % 2 = 1
    IN IF "digit" \in DOMAIN c THEN DigitValue(c.digit) >= 0
       ELSE /\ c.half = (IF high THEN "hi" ELSE "lo")
            /\ str[IF high THEN k + 1 ELSE k - 1]
                   = [half |-> IF high THEN "lo" ELSE "hi", of |-> c.of]

\* hex::decode
hex_decode(str) ==
    IF Len(str) % 2 = 1 THEN Err("Odd number of digits")
    ELSE LET invalid == {k \in 1..Len(str) : ~IsHexAt(str, k)}
         IN IF invalid # {}
            THEN Err(<<"Invalid character at position ",
                       (CHOOSE k \in invalid : \A j \in invalid : k <= j) - 1>>)
            ELSE Ok([i \in 1..(Len(str) \div 2) |->
                        LET high == str[2 * i - 1]
                            low == str[2 * i]
                        IN IF "digit" \in DOMAIN high
                           THEN Byte(16 * DigitValue(high.digit) + DigitValue(low.digit))
                           ELSE high.of])

\* impl Display for HexBytes / SerializeDisplay
HexBytes_serialize(bytes) == hex_encode(to_vec(bytes))

\* impl FromStr for HexBytes / DeserializeFromStr
HexBytes_from_str(str) ==
    LET decoded == hex_decode(str)
    IN IF IsErr(decoded) THEN Err(serde_custom(InvalidHex(decoded.error)))
       ELSE Ok(from_vec(decoded.value))

\* Exactly32Bytes on the wire: 64 hex digits
Exactly32Bytes_serialize(salt) == hex_encode(to_be_bytes(salt, 32))

Exactly32Bytes_deserialize(str) ==
    LET decoded == hex_decode(str)
    IN IF IsErr(decoded) THEN Err(serde_custom(InvalidHex(decoded.error)))
       ELSE IF Len(decoded.value) # 32
            THEN Err(serde_custom(InvalidByteCount(32, Len(decoded.value))))
       ELSE Ok(from_be_bytes(decoded.value))

\* derive(Serialize) for SecurityQuestion; the fields that are the same in
\* every question of the model are left out
SecurityQuestion_serialize(q) == [id |-> q.id, question |-> q.question]

\* derive(Deserialize) for SecurityQuestion: id is a u16
SecurityQuestion_deserialize(json) ==
    IF json.id \in 0..65535 THEN Ok(SecurityQuestion(json.id, json.question))
    ELSE Err(serde_error("invalid value: expected u16"))

\* derive(Serialize) for SecurityQuestionAndSalt
SecurityQuestionAndSalt_serialize(qs) ==
    [question |-> SecurityQuestion_serialize(qs.question),
     salt |-> Exactly32Bytes_serialize(qs.salt)]

\* derive(Deserialize) for SecurityQuestionAndSalt
SecurityQuestionAndSalt_deserialize(json) ==
    LET question == SecurityQuestion_deserialize(json.question)
        salt == Exactly32Bytes_deserialize(json.salt)
    IN IF IsErr(question) THEN question
       ELSE IF IsErr(salt) THEN salt
       ELSE Ok(SecurityQuestionAndSalt(question.value, salt.value))

\* A serializer that writes the items last to first
SecurityQuestionsAndSalts_serialize_reversed(qss) ==
    [i \in 1..Len(qss) |-> SecurityQuestionAndSalt_serialize(qss[Len(qss) + 1 - i])]

\* impl Serialize for SecurityQuestionsAndSalts<N>: a sequence of N items
SecurityQuestionsAndSalts_serialize(qss) == Map(qss, SecurityQuestionAndSalt_serialize)

\* impl Deserialize for SecurityQuestionsAndSalts<N>: read a Vec, then
\* try_from_iter, its error turned into the deserializer's
SecurityQuestionsAndSalts_deserialize(n, json) ==
    LET items == FirstErr(Map(json, SecurityQuestionAndSalt_deserialize))
    IN IF IsErr(items) THEN items
       ELSE LET collected == SecurityQuestionsAndSalts_try_from_iter(n, items.value)
            IN IF IsErr(collected) THEN Err(serde_custom(collected.error))
               ELSE collected

\* derive(Serialize) for SecurityQuestionsKdfScheme: the variant holding
\* the two sub-KDF markers, which have no fields
SecurityQuestionsKdfScheme_serialize(scheme) ==
    [Version1 |-> [entropies_from_questions_answer_and_salt |-> <<>>,
                   kdf_encryption_keys_from_key_exchange_keys |-> <<>>]]

SecurityQuestionsKdfScheme_deserialize(json) ==
    IF DOMAIN json = {"Version1"} THEN Ok("Version1")
    ELSE Err(serde_error("unknown variant, expected Version1"))

\* impl Serialize for EncryptionScheme: description and version
EncryptionScheme_serialize(scheme) == [description |-> "AESGCM-256", version |-> 1]

\* impl Deserialize for EncryptionScheme: the version decides
EncryptionScheme_deserialize(json) ==
    IF json.version = 1 THEN Ok("Version1")
    ELSE Err(serde_error("invalid value, expected 1"))

\* derive(Serialize) for SecurityQuestionsSealed; phantom is skipped
SecurityQuestionsSealed_serialize(sealed) ==
    [security_questions_and_salts |->
         SecurityQuestionsAndSalts_serialize(sealed.security_questions_and_salts),
     kdf_scheme |-> SecurityQuestionsKdfScheme_serialize(sealed.kdf_scheme),
     encryption_scheme |-> EncryptionScheme_serialize(sealed.encryption_scheme),
     encryptions |-> Map(sealed.encryptions, HexBytes_serialize)]

\* derive(Deserialize) for SecurityQuestionsSealed<Secret, n, m>, the fields
\* read in the order serialize writes them
SecurityQuestionsSealed_deserialize(secret_type, n, m, json) ==
    LET security_questions_and_salts ==
            SecurityQuestionsAndSalts_deserialize(n, json.security_questions_and_salts)
        kdf_scheme == SecurityQuestionsKdfScheme_deserialize(json.kdf_scheme)
        encryption_scheme == EncryptionScheme_deserialize(json.encryption_scheme)
        encryptions == FirstErr(Map(json.encryptions, HexBytes_from_str))
    IN IF IsErr(security_questions_and_salts) THEN security_questions_and_salts
       ELSE IF IsErr(kdf_scheme) THEN kdf_scheme
       ELSE IF IsErr(encryption_scheme) THEN encryption_scheme
       ELSE IF IsErr(encryptions) THEN encryptions
       ELSE Ok([phantom |-> secret_type,
                security_questions_and_salts |-> security_questions_and_salts.value,
                kdf_scheme |-> kdf_scheme.value,
                encryption_scheme |-> encryption_scheme.value,
                encryptions |-> IndexSetOf(encryptions.value)])

---------------------------------------------------------------------------
(* Inputs of the model *)

\* The nonces a seal draws: nonce i of the stream that starts at seed
NonceStreams == 0..(NumNonces - 1)

NonceAt(seed, i) == (seed + i) % NumNonces

RECURSIVE Repeat(_, _)
Repeat(c, n) == IF n = 0 THEN <<>> ELSE <<c>> \o Repeat(c, n - 1)

Secrets == {StringSecret(Repeat("s", k)) : k \in 0..MaxSecretLen} \cup {FailsToBytes, FailsFromBytes}

Entries(questions, answers, salts) ==
    {SecurityQuestionAnswerAndSalt(q, a, s) : q \in questions, a \in answers, s \in salts}

\* (N, M) of the types in use; pairs outside N >= M >= 2 included
AllParams == {<<1, 1>>, <<2, 1>>, <<2, 2>>, <<2, 3>>, <<3, 0>>, <<3, 2>>, <<3, 3>>, <<3, 4>>}

ThresholdParams == {<<2, 2>>, <<3, 2>>}

\* what gets sealed, and what callers of open supply, under Spec
SealPool == Entries({Q1, Q4}, {<<"A">>, <<".">>}, {1}) \cup Entries({Q2, Q3}, {<<"A">>}, {1})

OpenPool ==
    Entries({Q1, Q2, Q3}, {<<"a">>, <<"b">>}, {1})
        \cup Entries({Q1}, {<<>>, <<"!">>}, {1})
        \cup Entries({Q1}, {<<"a">>}, {2})
        \cup Entries({Q4}, {<<"a">>}, {1})

\* what gets sealed under SpecSeal
SealOnlyPool == Entries(Questions, {<<>>, <<"a">>}, Salts)

\* what keys get derived from under SpecKdf
KdfPool == Entries(Questions, {<<>>, <<".">>, <<"a">>, <<"A">>}, Salts)

\* answers spelled over a small alphabet, and answers with the other
\* characters the canonical form removes or changes
AnswerAlphabet == {"a", "U+03A3", " "}

AnswerSamples ==
    SeqsUpTo(AnswerAlphabet, MaxAnswerLen)
        \cup {<<".">>, <<"A">>, <<"A", ".">>, <<"a", "?", "B">>, <<"a", "b">>,
              <<"U+2018", "a", "U+2019">>, <<"\t", "a", "\n">>, <<"'", "a", "\"">>,
              <<"U+FF07", "!", "a">>, <<"a", "U+03A3", ".", "a">>, <<"a", "U+03A3", "!", "a">>}

\* what entropies get derived from under SpecEntropy
EntropyPool == Entries(Questions, {<<>>, <<".">>, <<"a">>}, Salts)

\* (N, M) and the entropies handed to sub-KDF B under SpecXor: four HKDF
\* outputs and the XOR of three of them
XorParams == {<<2, 2>>, <<2, 3>>, <<3, 0>>, <<3, 1>>, <<3, 2>>, <<3, 3>>, <<4, 2>>, <<4, 3>>}

EntropySamples ==
    LET e1 == Hkdf(1, <<97>>, <<112>>)
        e2 == Hkdf(1, <<97>>, <<113>>)
        e3 == Hkdf(1, <<97>>, <<114>>)
        e4 == Hkdf(2, <<97>>, <<112>>)
    IN {e1, e2, e3, e4, xor(xor(e1, e2), e3)}

\* what callers of open supply under SpecReorder
ReorderPool ==
    Entries({Q1, Q2, Q3}, {<<"a">>, <<"b">>}, {1}) \cup Entries({Q1}, {<<>>}, {1})

\* what callers of open supply for a container with a spliced encryption:
\* the sealing answers and one wrong answer
SplicePool == Entries({Q1, Q2, Q3}, {<<"a">>}, {1}) \cup Entries({Q1}, {<<"b">>}, {1})

\* what gets sealed under SpecFrame: the caller's salts differ
FramePool == Entries({Q1, Q2, Q3}, {<<"a">>}, Salts)

\* keys, plaintexts and foreign byte strings of SpecAead
AeadKeys == {Hkdf(s, <<97>>, <<112>>) : s \in {1, 2, 3}}

Plaintexts == SeqsUpTo({97, 115}, MaxPlaintextLen)

\* byte strings no encrypt returned: zeros of every length up to one past
\* the lower bound, and the nonce and tag of an empty plaintext
ForeignBytes ==
    {Raw(Repeat(0, n)) : n \in 0..(LOWER_BOUND_LEN + 1)}
        \cup {[nonce |-> 0, cipher_text |-> AesGcmEncrypt(k, 0, <<>>)] : k \in AeadKeys}

\* (N, M) of the writers and readers of containers, and what gets sealed,
\* under SpecWire
WireParams == {<<2, 2>>, <<3, 2>>, <<3, 3>>}

WirePool == Entries({Q1, Q2, Q3}, {<<"a">>}, {1})

\* what try_from_iter gets under SpecCollect
CollectPool == Entries(Questions, {<<"a">>, <<"b">>}, Salts)

---------------------------------------------------------------------------
(* Operations *)

Idle == /\ tfi_call = NotCalled
        /\ kdf_call = NotCalled
        /\ seal_call = NotCalled
        /\ open_call = NotCalled
        /\ entropy_call = NotCalled
        /\ kdf_again = NotCalled
        /\ aead_call = NotCalled
        /\ wire_call = NotCalled
        /\ xor_call = NotCalled
        /\ reopen_call = NotCalled
        /\ binom_call = NotCalled

InitWith(params) ==
    /\ \E nm \in params : QUESTION_COUNT = nm[1] /\ MIN_CORRECT_ANSWERS = nm[2]
    /\ Idle
    /\ salts_generated = 0

\* SecurityQuestionsAnswersAndSalts::<N>::try_from_iter(qas)
TryFromIterAnswers ==
    /\ Idle
    /\ \E qas \in SeqsUpTo(CollectPool, MaxIterLen) :
          tfi_call' = [tag |-> "Called", type |-> "SecurityQuestionsAnswersAndSalts",
                       qas |-> qas,
                       result |-> SecurityQuestionsAnswersAndSalts_try_from_iter(QUESTION_COUNT, qas)]
    /\ UNCHANGED <<QUESTION_COUNT, MIN_CORRECT_ANSWERS, kdf_call, seal_call, open_call,
                 salts_generated, entropy_call, kdf_again, aead_call, wire_call,
                 xor_call, reopen_call, binom_call>>

\* SecurityQuestionsAndSalts::<N>::try_from_iter(qas)
TryFromIterSalts ==
    /\ Idle
    /\ \E qas \in SeqsUpTo({question_and_salt(e) : e \in CollectPool}, MaxIterLen) :
          tfi_call' = [tag |-> "Called", type |-> "SecurityQuestionsAndSalts",
                       qas |-> qas,
                       result |-> SecurityQuestionsAndSalts_try_from_iter(QUESTION_COUNT, qas)]
    /\ UNCHANGED <<QUESTION_COUNT, MIN_CORRECT_ANSWERS, kdf_call, seal_call, open_call,
                 salts_generated, entropy_call, kdf_again, aead_call, wire_call,
                 xor_call, reopen_call, binom_call>>

\* what one run of the key derivation computes from `with`
KeyDerivation(with) ==
    [tag |-> "Called", with |-> with,
     salts_generated |-> salts_generated,
     entropies |-> Map(with, derive_entropies_from_question_answer_and_salt),
     result |-> derive_encryption_keys_from_questions_answers_and_salts(
                    QUESTION_COUNT, MIN_CORRECT_ANSWERS, with)]

\* kdf_scheme.derive_encryption_keys_from_questions_answers_and_salts::<N, M>(with)
DeriveKeys ==
    /\ Idle
    /\ \E with \in [1..QUESTION_COUNT -> KdfPool] :
          kdf_call' = KeyDerivation(with)
    /\ UNCHANGED <<QUESTION_COUNT, MIN_CORRECT_ANSWERS, tfi_call, seal_call, open_call,
                 salts_generated, entropy_call, kdf_again, aead_call, wire_call,
                 xor_call, reopen_call, binom_call>>

\* the same derivation from a sample of inputs
DeriveKeysSample ==
    /\ Idle
    /\ \E with \in [1..QUESTION_COUNT -> SealPool] : kdf_call' = KeyDerivation(with)
    /\ UNCHANGED <<QUESTION_COUNT, MIN_CORRECT_ANSWERS, tfi_call, seal_call, open_call,
                 salts_generated, entropy_call, kdf_again, aead_call, wire_call,
                 xor_call, reopen_call, binom_call>>

\* SecurityQuestionAndSalt::generate_salt: one more draw from the CSPRNG
GenerateSalt ==
    /\ salts_generated < MaxSaltsGenerated
    /\ salts_generated' = salts_generated + 1
    /\ UNCHANGED <<QUESTION_COUNT, MIN_CORRECT_ANSWERS, tfi_call, kdf_call, seal_call, open_call,
                 entropy_call, kdf_again, aead_call, wire_call,
                 xor_call, reopen_call, binom_call>>

\* a second run of the key derivation on the input of the first
DeriveKeysAgain ==
    /\ kdf_call.tag = "Called"
    /\ kdf_again = NotCalled
    /\ kdf_again' = KeyDerivation(kdf_call.with)
    /\ UNCHANGED <<QUESTION_COUNT, MIN_CORRECT_ANSWERS, tfi_call, kdf_call, seal_call, open_call,
                 salts_generated, entropy_call, aead_call, wire_call,
                 xor_call, reopen_call, binom_call>>

\* derive_entropies_from_question_answer_and_salt on two entries
EntropyDerivations(first, second) ==
    [tag |-> "Called", first |-> first, second |-> second,
     trimmed |-> <<trim_answer(first.answer), trim_answer(second.answer)>>,
     retrimmed |-> <<trim_answer(trim_answer(first.answer)),
                     trim_answer(trim_answer(second.answer))>>,
     results |-> <<derive_entropies_from_question_answer_and_salt(first),
                   derive_entropies_from_question_answer_and_salt(second)>>]

\* two answers to one question under one salt
DeriveEntropiesOfAnswers ==
    /\ Idle
    /\ \E a \in AnswerSamples, b \in AnswerSamples :
          entropy_call' = EntropyDerivations(SecurityQuestionAnswerAndSalt(Q1, a, 1),
                                             SecurityQuestionAnswerAndSalt(Q1, b, 1))
    /\ UNCHANGED <<QUESTION_COUNT, MIN_CORRECT_ANSWERS, tfi_call, kdf_call, seal_call, open_call,
                 salts_generated, kdf_again, aead_call, wire_call,
                 xor_call, reopen_call, binom_call>>

\* any two entries
DeriveEntropiesOfEntries ==
    /\ Idle
    /\ \E first \in EntropyPool, second \in EntropyPool :
          entropy_call' = EntropyDerivations(first, second)
    /\ UNCHANGED <<QUESTION_COUNT, MIN_CORRECT_ANSWERS, tfi_call, kdf_call, seal_call, open_call,
                 salts_generated, kdf_again, aead_call, wire_call,
                 xor_call, reopen_call, binom_call>>

\* derive_encryption_keys_from::<N, M>(entropies), and the same call with
\* the entropies in another order
DeriveFromEntropies ==
    /\ Idle
    /\ \E entropies \in [1..QUESTION_COUNT -> EntropySamples],
          order \in Permutations(1..QUESTION_COUNT) :
          LET reordered == [i \in 1..QUESTION_COUNT |-> entropies[order[i]]]
          IN xor_call' =
                [tag |-> "Called", entropies |-> entropies, reordered |-> reordered,
                 result |-> derive_encryption_keys_from(
                                QUESTION_COUNT, MIN_CORRECT_ANSWERS, entropies),
                 result_reordered |-> derive_encryption_keys_from(
                                QUESTION_COUNT, MIN_CORRECT_ANSWERS, reordered)]
    /\ UNCHANGED <<QUESTION_COUNT, MIN_CORRECT_ANSWERS, tfi_call, kdf_call, seal_call, open_call,
                 salts_generated, entropy_call, kdf_again, aead_call, wire_call,
                 reopen_call, binom_call>>

\* n_choose_m::<n, m>(), as EncryptionKeys::<n, m>::new calls it, in a build
\* with or without overflow checks
NChooseM ==
    /\ Idle
    /\ \E n \in 0..MaxQuestionCount, m \in 0..MaxQuestionCount, overflow_checks \in BOOLEAN :
          binom_call' = [tag |-> "Called", n |-> n, m |-> m,
                         overflow_checks |-> overflow_checks,
                         result |-> n_choose_m_usize(n, m, overflow_checks)]
    /\ UNCHANGED <<QUESTION_COUNT, MIN_CORRECT_ANSWERS, tfi_call, kdf_call, seal_call, open_call,
                 salts_generated, entropy_call, kdf_again, aead_call, wire_call,
                 xor_call, reopen_call>>

\* encryption_scheme.encrypt(plaintext, encryption_key)
Encrypt ==
    /\ Idle
    /\ \E plaintext \in Plaintexts, encryption_key \in AeadKeys, nonce \in NonceStreams :
          aead_call' = [tag |-> "Encrypted", plaintext |-> plaintext,
                        encryption_key |-> encryption_key,
                        encrypted |-> encrypt(plaintext, encryption_key, nonce)]
    /\ UNCHANGED <<QUESTION_COUNT, MIN_CORRECT_ANSWERS, tfi_call, kdf_call, seal_call, open_call,
                 salts_generated, entropy_call, kdf_again, wire_call,
                 xor_call, reopen_call, binom_call>>

\* encryption_scheme.decrypt(cipher_text, decryption_key) on what encrypt returned
Decrypt ==
    /\ aead_call.tag = "Encrypted"
    /\ IsOk(aead_call.encrypted)
    /\ \E decryption_key \in AeadKeys :
          aead_call' = [tag |-> "Decrypted", plaintext |-> aead_call.plaintext,
                        encryption_key |-> aead_call.encryption_key,
                        encrypted |-> aead_call.encrypted,
                        cipher_text |-> aead_call.encrypted.value,
                        decryption_key |-> decryption_key,
                        decrypted |-> decrypt(aead_call.encrypted.value, decryption_key)]
    /\ UNCHANGED <<QUESTION_COUNT, MIN_CORRECT_ANSWERS, tfi_call, kdf_call, seal_call, open_call,
                 salts_generated, entropy_call, kdf_again, wire_call,
                 xor_call, reopen_call, binom_call>>

\* encryption_scheme.decrypt(cipher_text, decryption_key) on other bytes
DecryptForeign ==
    /\ Idle
    /\ \E cipher_text \in ForeignBytes, decryption_key \in AeadKeys :
          aead_call' = [tag |-> "Decrypted", encrypted |-> NotCalled,
                        cipher_text |-> cipher_text,
                        decryption_key |-> decryption_key,
                        decrypted |-> decrypt(cipher_text, decryption_key)]
    /\ UNCHANGED <<QUESTION_COUNT, MIN_CORRECT_ANSWERS, tfi_call, kdf_call, seal_call, open_call,
                 salts_generated, entropy_call, kdf_again, wire_call,
                 xor_call, reopen_call, binom_call>>

\* SecurityQuestionsSealed::<Secret, N, M>::seal(secret, with)
Seal(pool) ==
    /\ Idle
    /\ \E secret \in Secrets, with \in [1..QUESTION_COUNT -> pool], stream \in NonceStreams :
          LET nonces == [i \in 1..QUESTION_COUNT * QUESTION_COUNT |-> NonceAt(stream, i)]
              result == with_schemes(QUESTION_COUNT, MIN_CORRECT_ANSWERS, secret, with, nonces)
          IN seal_call' = [tag |-> "Called", secret |-> secret, with |-> with, result |-> result,
                           crypto |-> crypto_ops_of_seal(QUESTION_COUNT, MIN_CORRECT_ANSWERS,
                                                         secret, with)]
    /\ UNCHANGED <<QUESTION_COUNT, MIN_CORRECT_ANSWERS, tfi_call, kdf_call, open_call,
                 salts_generated, entropy_call, kdf_again, aead_call, wire_call,
                 xor_call, reopen_call, binom_call>>

\* sealed.open(with) on the container the seal returned
Open(inputs) ==
    /\ seal_call.tag = "Called"
    /\ IsOk(seal_call.result)
    /\ open_call = NotCalled
    /\ \E with \in inputs :
          LET opened == open(QUESTION_COUNT, MIN_CORRECT_ANSWERS, seal_call.result.value, with)
          IN open_call' = [tag |-> "Called", with |-> with,
                           sealed |-> seal_call.result.value,
                           result |-> opened.result, attempts |-> opened.attempts,
                           crypto |-> crypto_ops_of_open(QUESTION_COUNT, MIN_CORRECT_ANSWERS,
                                                         seal_call.result.value, with)]
    /\ UNCHANGED <<QUESTION_COUNT, MIN_CORRECT_ANSWERS, tfi_call, kdf_call, seal_call,
                 salts_generated, entropy_call, kdf_again, aead_call, wire_call,
                 xor_call, reopen_call, binom_call>>

SealSample == Seal(SealPool)

OpenFromReorderPool == Open([1..QUESTION_COUNT -> ReorderPool])

\* sealed.open(with) on the container the seal returned with one more
\* encryption in front: bytes that are not UTF-8, encrypted under one of
\* the keys of the seal
OpenSpliced ==
    /\ seal_call.tag = "Called"
    /\ IsOk(seal_call.result)
    /\ open_call = NotCalled
    /\ LET keys == derive_encryption_keys_from_questions_answers_and_salts(
                       QUESTION_COUNT, MIN_CORRECT_ANSWERS, seal_call.with).value
       IN \E k \in 1..Len(keys), with \in [1..QUESTION_COUNT -> SplicePool] :
             LET foreign == encrypt(<<222, 173, 190, 239>>, keys[k], 0).value
                 sealed == [seal_call.result.value EXCEPT !.encryptions = <<foreign>> \o @]
                 opened == open(QUESTION_COUNT, MIN_CORRECT_ANSWERS, sealed, with)
             IN open_call' = [tag |-> "Called", with |-> with, sealed |-> sealed,
                              result |-> opened.result, attempts |-> opened.attempts]
    /\ UNCHANGED <<QUESTION_COUNT, MIN_CORRECT_ANSWERS, tfi_call, kdf_call, seal_call,
                 salts_generated, entropy_call, kdf_again, aead_call, wire_call,
                 xor_call, reopen_call, binom_call>>

\* sealed.open(with) again, with the entries of the last open in another order
OpenReordered ==
    /\ open_call.tag = "Called"
    /\ reopen_call = NotCalled
    /\ \E order \in Permutations(1..QUESTION_COUNT) :
          LET with == [i \in 1..QUESTION_COUNT |-> open_call.with[order[i]]]
              opened == open(QUESTION_COUNT, MIN_CORRECT_ANSWERS, open_call.sealed, with)
          IN reopen_call' = [tag |-> "Called", order |-> order, with |-> with,
                             sealed |-> open_call.sealed,
                             result |-> opened.result, attempts |-> opened.attempts]
    /\ UNCHANGED <<QUESTION_COUNT, MIN_CORRECT_ANSWERS, tfi_call, kdf_call, seal_call, open_call,
                 salts_generated, entropy_call, kdf_again, aead_call, wire_call,
                 xor_call, binom_call>>

SealForWire == Seal(WirePool)

SealWithSalts == Seal(FramePool)

\* serde_json::to_value(&sealed) on the container the seal returned
Serialize ==
    /\ seal_call.tag = "Called"
    /\ IsOk(seal_call.result)
    /\ wire_call = NotCalled
    /\ wire_call' = [tag |-> "Serialized", as_written |-> TRUE,
                     json |-> SecurityQuestionsSealed_serialize(seal_call.result.value)]
    /\ UNCHANGED <<QUESTION_COUNT, MIN_CORRECT_ANSWERS, tfi_call, kdf_call, seal_call, open_call,
                 salts_generated, entropy_call, kdf_again, aead_call,
                 xor_call, reopen_call, binom_call>>

\* The JSON reaches the reader changed: json is what arrives
Arrives(json) ==
    /\ wire_call.tag = "Serialized"
    /\ wire_call.as_written
    /\ wire_call' = [tag |-> "Serialized", as_written |-> FALSE, json |-> json]
    /\ UNCHANGED <<QUESTION_COUNT, MIN_CORRECT_ANSWERS, tfi_call, kdf_call, seal_call, open_call,
                 salts_generated, entropy_call, kdf_again, aead_call,
                 xor_call, reopen_call, binom_call>>

\* without the last of the encryptions
DropEncryption ==
    /\ wire_call.tag = "Serialized"
    /\ Arrives([wire_call.json EXCEPT
                   !.encryptions = SubSeq(@, 1, Len(@) - 1)])

\* without the last of the questions
DropQuestion ==
    /\ wire_call.tag = "Serialized"
    /\ Arrives([wire_call.json EXCEPT
                   !.security_questions_and_salts = SubSeq(@, 1, Len(@) - 1)])

\* with the first of the questions in the place of the last as well
RepeatQuestion ==
    /\ wire_call.tag = "Serialized"
    /\ LET written == wire_call.json.security_questions_and_salts
       IN Arrives([wire_call.json EXCEPT
                      !.security_questions_and_salts =
                          [i \in 1..Len(written) |->
                              IF i = Len(written) THEN written[1] ELSE written[i]]])

\* serde_json::from_value::<SecurityQuestionsSealed<Secret, n, m>>(json)
Deserialize ==
    /\ wire_call.tag = "Serialized"
    /\ \E reader \in WireParams :
          wire_call' = [tag |-> "Deserialized", as_written |-> wire_call.as_written,
                        json |-> wire_call.json,
                        reader |-> reader,
                        result |-> SecurityQuestionsSealed_deserialize(
                                       seal_call.secret.kind, reader[1], reader[2],
                                       wire_call.json)]
    /\ UNCHANGED <<QUESTION_COUNT, MIN_CORRECT_ANSWERS, tfi_call, kdf_call, seal_call, open_call,
                 salts_generated, entropy_call, kdf_again, aead_call,
                 xor_call, reopen_call, binom_call>>

\* sealed.open(with) on the container that was read
OpenDeserialized ==
    /\ wire_call.tag = "Deserialized"
    /\ IsOk(wire_call.result)
    /\ open_call = NotCalled
    /\ \E with \in [1..wire_call.reader[1] -> WirePool] :
          LET opened == open(wire_call.reader[1], wire_call.reader[2],
                             wire_call.result.value, with)
          IN open_call' = [tag |-> "Called", with |-> with,
                           sealed |-> wire_call.result.value,
                           result |-> opened.result, attempts |-> opened.attempts]
    /\ UNCHANGED <<QUESTION_COUNT, MIN_CORRECT_ANSWERS, tfi_call, kdf_call, seal_call,
                 salts_generated, entropy_call, kdf_again, aead_call, wire_call,
                 xor_call, reopen_call, binom_call>>

OpenAny == Open([1..QUESTION_COUNT -> OpenPool])

OpenSame == Open({seal_call.with})

SealAny == Seal(SealOnlyPool)

---------------------------------------------------------------------------
(* Specifications *)

\* seal a sample, then open it with what a caller may supply
Init == InitWith(ThresholdParams)

Next == SealSample \/ OpenAny \/ OpenSame

Spec == Init /\ [][Next]_vars

\* seal anything, then open with the answers that sealed
InitSeal == InitWith(AllParams)

NextSeal == SealAny \/ OpenSame

SpecSeal == InitSeal /\ [][NextSeal]_vars

\* key derivation alone
InitKdf == InitWith(AllParams)

NextKdf == DeriveKeys

SpecKdf == InitKdf /\ [][NextKdf]_vars

\* entropy derivation alone, two derivations side by side
InitEntropy == InitWith({<<2, 2>>})

NextEntropy == DeriveEntropiesOfAnswers \/ DeriveEntropiesOfEntries

SpecEntropy == InitEntropy /\ [][NextEntropy]_vars

\* key derivation run twice, with salts generated in between
InitDeterminism == InitWith(ThresholdParams)

NextDeterminism == DeriveKeysSample \/ GenerateSalt \/ DeriveKeysAgain

SpecDeterminism == InitDeterminism /\ [][NextDeterminism]_vars

\* seal, write the container as JSON, read it under some (N, M), open it
InitWire == InitWith(WireParams)

NextWire ==
    \/ SealForWire
    \/ Serialize
    \/ DropEncryption
    \/ DropQuestion
    \/ RepeatQuestion
    \/ Deserialize
    \/ OpenDeserialized

SpecWire == InitWire /\ [][NextWire]_vars

\* seal, open, and open again with the entries reordered
InitReorder == InitWith(ThresholdParams)

NextReorder == SealForWire \/ OpenFromReorderPool \/ OpenReordered

SpecReorder == InitReorder /\ [][NextReorder]_vars

\* seal, then open the container as sealed or with an encryption added
InitLoop == InitWith(ThresholdParams)

NextLoop == SealForWire \/ OpenFromReorderPool \/ OpenSpliced

SpecLoop == InitLoop /\ [][NextLoop]_vars

\* callers generate salts; seal and open with the salts handed in
InitFrame == InitWith(ThresholdParams)

NextFrame == GenerateSalt \/ SealWithSalts \/ OpenSame

SpecFrame == InitFrame /\ [][NextFrame]_vars

\* n_choose_m alone
InitBinomial == InitWith({<<2, 2>>})

NextBinomial == NChooseM

SpecBinomial == InitBinomial /\ [][NextBinomial]_vars

\* sub-KDF B alone
InitXor == InitWith(XorParams)

NextXor == DeriveFromEntropies

SpecXor == InitXor /\ [][NextXor]_vars

\* the AEAD scheme alone
InitAead == InitWith({<<2, 2>>})

NextAead == Encrypt \/ Decrypt \/ DecryptForeign

SpecAead == InitAead /\ [][NextAead]_vars

\* construction of the fixed-size collections
InitCollect == InitWith({<<1, 1>>, <<2, 2>>, <<3, 2>>})

NextCollect == TryFromIterAnswers \/ TryFromIterSalts

SpecCollect == InitCollect /\ [][NextCollect]_vars

---------------------------------------------------------------------------
(* Vocabulary of the properties *)

Sealed == seal_call.tag = "Called" /\ IsOk(seal_call.result)

Opened == open_call.tag = "Called"

ValidParams == QUESTION_COUNT >= MIN_CORRECT_ANSWERS /\ MIN_CORRECT_ANSWERS >= 2

DistinctQuestions(qas) ==
    \A i, j \in 1..Len(qas) : i # j => qas[i].question # qas[j].question

\* the secret type gives back the secret from the bytes it wrote
RoundTrips(secret) ==
    LET bytes == to_bytes(secret)
    IN IsOk(bytes) /\ from_bytes(secret.kind, bytes.value) = Ok(secret)

KeysDerive(with) ==
    IsOk(derive_encryption_keys_from_questions_answers_and_salts(
             QUESTION_COUNT, MIN_CORRECT_ANSWERS, with))

\* the caller answers the container's questions, in its order, with its salts
OverContainer ==
    LET saved == open_call.sealed.security_questions_and_salts
    IN /\ Len(open_call.with) = Len(saved)
       /\ \A i \in 1..Len(saved) : question_and_salt(open_call.with[i]) = saved[i]

\* the caller answers the container's questions, in its order
OverQuestions ==
    LET saved == open_call.sealed.security_questions_and_salts
    IN /\ Len(open_call.with) = Len(saved)
       /\ \A i \in 1..Len(saved) : open_call.with[i].question = saved[i].question

\* positions where the caller's answer is the sealing answer once canonical
Agreeing ==
    {i \in 1..QUESTION_COUNT :
        trim_answer(open_call.with[i].answer) = trim_answer(seal_call.with[i].answer)}

---------------------------------------------------------------------------
(* Roundtrip and threshold *)

\* C1 (as stated): for every secret of a type that reads back its own bytes,
\* every N >= M >= 2 and every N answers to distinct questions from which the
\* keys derive, seal returns a container, and open of that container with the
\* same answers returns the secret.
C1_Roundtrip ==
    (/\ seal_call.tag = "Called"
     /\ ValidParams
     /\ DistinctQuestions(seal_call.with)
     /\ RoundTrips(seal_call.secret)
     /\ KeysDerive(seal_call.with))
    => /\ IsOk(seal_call.result)
       /\ (Opened /\ open_call.with = seal_call.with)
              => open_call.result = Ok(seal_call.secret)

\* C2 (as stated): a caller who answers the container's questions with the
\* container's salts and agrees with the sealing answers on at least M
\* positions gets the secret back from open.
C2_ThresholdSuccess ==
    (/\ Opened
     /\ RoundTrips(seal_call.secret)
     /\ OverContainer
     /\ Cardinality(Agreeing) >= MIN_CORRECT_ANSWERS)
    => open_call.result = Ok(seal_call.secret)

\* C2 (amended): a caller who answers the container's questions with the
\* container's salts, agrees with the sealing answers on at least M positions
\* and whose own key derivation succeeds (no answer empty, C(N, M) distinct
\* keys) gets the secret back from open.
C2_ThresholdSuccessWhenKeysDerive ==
    (/\ Opened
     /\ RoundTrips(seal_call.secret)
     /\ OverContainer
     /\ Cardinality(Agreeing) >= MIN_CORRECT_ANSWERS
     /\ KeysDerive(open_call.with))
    => open_call.result = Ok(seal_call.secret)

\* C2 witness: open returned the secret although one answer was wrong
C2_Witness ==
    /\ Opened
    /\ OverContainer
    /\ Cardinality(Agreeing) = MIN_CORRECT_ANSWERS
    /\ MIN_CORRECT_ANSWERS < QUESTION_COUNT
    /\ 1 \notin Agreeing
    /\ KeysDerive(open_call.with)
    /\ open_call.result = Ok(seal_call.secret)

\* C3 (as stated, the part "never with the secret"): a caller who answers the
\* container's questions and agrees with the sealing answers on fewer than M
\* positions does not get a secret from open.
C3_ThresholdFailure ==
    (/\ Opened
     /\ OverQuestions
     /\ Cardinality(Agreeing) < MIN_CORRECT_ANSWERS)
    => ~IsOk(open_call.result)

---------------------------------------------------------------------------
(* open: order of the checks and of the failures *)

\* positions of the caller's entries whose question the container does not hold
UnrelatedPositions ==
    {i \in 1..Len(open_call.with) :
        \A j \in 1..Len(open_call.sealed.security_questions_and_salts) :
            open_call.sealed.security_questions_and_salts[j].question
                # open_call.with[i].question}

\* C4: when the caller supplies a question that equals none of the container's
\* questions, open fails with unrelated-question-provided carrying the display
\* string of the first such question in the caller's order, whatever the
\* answers and salts are.
C4_UnrelatedQuestion ==
    (Opened /\ UnrelatedPositions # {})
    => LET first == CHOOSE i \in UnrelatedPositions : \A j \in UnrelatedPositions : i <= j
       IN open_call.result
              = Err(UnrelatedQuestionProvided(QuestionToString(open_call.with[first].question)))

\* C4 witness: two different unrelated questions, the first one with an empty
\* answer, and the error names the first
C4_Witness ==
    /\ Opened
    /\ \E i, j \in UnrelatedPositions :
          /\ i < j
          /\ open_call.with[i].question # open_call.with[j].question
          /\ open_call.with[i].answer = <<>>
          /\ open_call.result
                 = Err(UnrelatedQuestionProvided(QuestionToString(open_call.with[i].question)))

\* open reached its loops: the questions were relevant and the keys derived
LoopRan ==
    /\ Opened
    /\ IsOk(are_all_answers_relevant(open_call.sealed, open_call.with))
    /\ KeysDerive(open_call.with)

\* pairs of the loops for which AEAD verification succeeded
Verified == {i \in 1..Len(open_call.attempts) : open_call.attempts[i].decrypted}

\* C5: when the loops of open end without returning a secret, every pair has
\* been tried, and the error is failed-to-convert-bytes-to-secret with the
\* reason of the last reconstruction failure if some pair verified, and
\* failed-to-decrypt-sealed-secret if none did.
C5_FailureOrdering ==
    (LoopRan /\ IsErr(open_call.result))
    => /\ Len(open_call.attempts)
             = Len(derive_encryption_keys_from_questions_answers_and_salts(
                       QUESTION_COUNT, MIN_CORRECT_ANSWERS, open_call.with).value)
                   * Len(open_call.sealed.encryptions)
       /\ IF Verified = {}
          THEN open_call.result = Err(FailedToDecryptSealedSecret)
          ELSE LET last == CHOOSE i \in Verified : \A j \in Verified : j <= i
               IN open_call.result
                      = Err(FailedToConvertBytesToSecret(open_call.attempts[last].secret.error))

\* C5 witness: a pair verified, the pairs after it did not, and the error is
\* the reconstruction failure
C5_Witness ==
    /\ LoopRan
    /\ Verified # {}
    /\ Len(open_call.attempts) \notin Verified
    /\ open_call.result.tag = "Err"
    /\ open_call.result.error.kind = "FailedToConvertBytesToSecret"

---------------------------------------------------------------------------
(* seal and key derivation *)

\* C(n, m) by Pascal's rule
RECURSIVE Binomial(_, _)
Binomial(n, m) ==
    IF m = 0 THEN 1
    ELSE IF n = 0 THEN 0
    ELSE Binomial(n - 1, m - 1) + Binomial(n - 1, m)

\* C6: a container returned by seal with parameters (N, M) holds exactly
\* C(N, M) ciphertexts, the i-th one made under the i-th derived subset key.
C6_SubsetKeyCount ==
    Sealed
    => LET encryptions == seal_call.result.value.encryptions
           keys == derive_encryption_keys_from_questions_answers_and_salts(
                       QUESTION_COUNT, MIN_CORRECT_ANSWERS, seal_call.with)
       IN /\ Len(encryptions) = Binomial(QUESTION_COUNT, MIN_CORRECT_ANSWERS)
          /\ IsOk(keys)
          /\ Len(keys.value) = Len(encryptions)
          /\ \A i \in 1..Len(encryptions) : encryptions[i].cipher_text.key = keys.value[i]
          /\ \A i, j \in 1..Len(encryptions) : i # j => encryptions[i] # encryptions[j]

\* C6 witness: a container for N = 3, M = 2 with three ciphertexts
C6_Witness ==
    /\ Sealed
    /\ QUESTION_COUNT = 3
    /\ MIN_CORRECT_ANSWERS = 2
    /\ Len(seal_call.result.value.encryptions) = 3

\* C7 (as stated): when an answer handed to key derivation for N >= M >= 2
\* and N distinct questions is empty once canonical, the derivation fails
\* with empty-answer.
C7_EmptyCanonicalAnswer ==
    (/\ kdf_call.tag = "Called"
     /\ ValidParams
     /\ DistinctQuestions(kdf_call.with)
     /\ \E i \in 1..Len(kdf_call.with) : trim_answer(kdf_call.with[i].answer) = <<>>)
    => kdf_call.result = Err(AnswersToSecurityQuestionsCannotBeEmpty)

\* C8 (as stated): when (N, M) violates N >= M >= 2 and no answer is empty,
\* key derivation returns the error questions-must-be->=-answers {N, M}.
C8_ParamsEnforced ==
    (/\ kdf_call.tag = "Called"
     /\ ~ValidParams
     /\ \A i \in 1..Len(kdf_call.with) : kdf_call.with[i].answer # <<>>)
    => kdf_call.result
           = Err(QuestionsMustBeGreaterThanOrEqualAnswers(QUESTION_COUNT, MIN_CORRECT_ANSWERS))

---------------------------------------------------------------------------
(* Fixed-size collections *)

\* C9 (as stated): a collection that try_from_iter accepts has N pairwise
\* distinct questions.
C9_DistinctQuestions ==
    (tfi_call.tag = "Called" /\ IsOk(tfi_call.result))
    => /\ Len(tfi_call.result.value) = QUESTION_COUNT
       /\ DistinctQuestions(tfi_call.result.value)

\* the entries of s that equal no earlier entry, in the order of s
FirstOccurrences(s) ==
    LET IsFirst(i) == \A j \in 1..(i - 1) : s[j] # s[i]
        kept == SelectSeq([i \in 1..Len(s) |-> i], IsFirst)
    IN [k \in 1..Len(kept) |-> s[kept[k]]]

---------------------------------------------------------------------------
(* Canonical answers and entropies *)

\* the eleven code points the canonical form of an answer leaves out
StrippedCodePoints ==
    {" ", "\t", "\n", ".", "!", "?", "'", "\"", "U+2018", "U+2019", "U+FF07"}

\* s without the characters at the positions that hold a stripped code point
WithoutStripped(s) ==
    LET Stays(i) == s[i] \notin StrippedCodePoints
        kept == SelectSeq([i \in 1..Len(s) |-> i], Stays)
    IN [k \in 1..Len(kept) |-> s[kept[k]]]

AsciiLower(c) == IF c = "A" THEN "a" ELSE IF c = "B" THEN "b" ELSE c

\* what is left of an answer when ASCII case, stripped code points and
\* whitespace are disregarded
Skeleton(answer) ==
    LET s == WithoutStripped(answer) IN [i \in 1..Len(s) |-> AsciiLower(s[i])]

\* C11 (as stated, for answers of which something is left): two answers to
\* one question under one salt that differ only in ASCII case, in stripped
\* code points or in whitespace derive the same entropy.
C11_CanonicalizationEquivalence ==
    (/\ entropy_call.tag = "Called"
     /\ entropy_call.first.question = entropy_call.second.question
     /\ entropy_call.first.salt = entropy_call.second.salt
     /\ Skeleton(entropy_call.first.answer) = Skeleton(entropy_call.second.answer)
     /\ Skeleton(entropy_call.first.answer) # <<>>)
    => entropy_call.results[1] = entropy_call.results[2]

\* C12: trim_answer returns the lowercased answer without the occurrences of
\* the eleven code points, every other character kept in its order, and
\* trimming what it returned changes nothing.
C12_TrimAnswer ==
    entropy_call.tag = "Called"
    => /\ entropy_call.trimmed[1] = WithoutStripped(to_lowercase(entropy_call.first.answer))
       /\ entropy_call.trimmed[2] = WithoutStripped(to_lowercase(entropy_call.second.answer))
       /\ entropy_call.retrimmed = entropy_call.trimmed

\* C12 witness: an answer with a capital sigma before a stripped character,
\* trimmed to its lowercase letters
C12_Witness ==
    /\ entropy_call.tag = "Called"
    /\ entropy_call.first.answer = <<"a", "U+03A3", "!", "a">>
    /\ entropy_call.trimmed[1] = <<"a", "U+03C2", "a">>
    /\ entropy_call.second.answer = <<"U+2018", "a", "U+2019">>
    /\ entropy_call.trimmed[2] = <<"a">>
    /\ entropy_call.retrimmed = entropy_call.trimmed

C14_DomainSeparation ==
    (/\ entropy_call.tag = "Called"
     /\ Skeleton(entropy_call.first.answer) # <<>>
     /\ entropy_call.first.question # entropy_call.second.question
     /\ entropy_call.first.salt = entropy_call.second.salt
     /\ entropy_call.first.answer = entropy_call.second.answer
     /\ IsOk(entropy_call.results[1]))
    => entropy_call.results[1] # entropy_call.results[2]

---------------------------------------------------------------------------
(* AEAD scheme version 1 *)

\* C15: decrypt of a byte string shorter than 29 bytes returns
\* AES-bytes-too-short {expected_at_least: 29, found: its length}, whatever
\* the key, also when the bytes would verify under the key.
C15_TooShort ==
    (aead_call.tag = "Decrypted" /\ ByteLen(aead_call.cipher_text) < 29)
    => aead_call.decrypted
           = Err(InvalidAESBytesTooShort(29, ByteLen(aead_call.cipher_text)))

\* C15 witness: the 28 bytes nonce || tag of an empty plaintext, handed to
\* decrypt with the key that made the tag
C15_Witness ==
    /\ aead_call.tag = "Decrypted"
    /\ ~IsRaw(aead_call.cipher_text)
    /\ aead_call.cipher_text.cipher_text.key = aead_call.decryption_key
    /\ ByteLen(aead_call.cipher_text) = 28
    /\ aead_call.decrypted = Err(InvalidAESBytesTooShort(29, 28))

\* C16 (as stated): encrypt of any plaintext under any key returns bytes that
\* decrypt under the same key to the plaintext.
C16_AeadRoundtrip ==
    /\ aead_call.tag = "Encrypted" => IsOk(aead_call.encrypted)
    /\ (/\ aead_call.tag = "Decrypted"
        /\ aead_call.encrypted # NotCalled
        /\ aead_call.decryption_key = aead_call.encryption_key)
       => aead_call.decrypted = Ok(aead_call.plaintext)

---------------------------------------------------------------------------
(* Secrets that do not convert *)

\* seal got as far as converting the secret: the questions and salts were
\* collected and the keys derived
ReachedToBytes ==
    /\ seal_call.tag = "Called"
    /\ IsOk(SecurityQuestionsAndSalts_try_from_iter(
                QUESTION_COUNT, IndexSetOf(Map(seal_call.with, question_and_salt))))
    /\ KeysDerive(seal_call.with)

\* C17: when the secret's to_bytes fails, seal never returns a container, and
\* once seal has collected the questions and derived the keys it returns
\* failed-to-convert-secret-to-bytes carrying the message of the failure;
\* nothing was encrypted.
C17_ToBytesFails ==
    (seal_call.tag = "Called" /\ seal_call.secret.kind = "FailsToBytes")
    => /\ ~IsOk(seal_call.result)
       /\ ReachedToBytes
          => seal_call.result = Err(FailedToConvertSecretToBytes("meant to fail for test"))

\* C17 witness: a secret that does not convert, sealed with entries that
\* derive keys
C17_Witness ==
    /\ ReachedToBytes
    /\ ValidParams
    /\ seal_call.secret = FailsToBytes
    /\ seal_call.result = Err(FailedToConvertSecretToBytes("meant to fail for test"))

---------------------------------------------------------------------------
(* The container on the wire *)

Deserialized == wire_call.tag = "Deserialized"

\* the reader's N and M
ReaderQuestionCount == wire_call.reader[1]

ReaderMinCorrectAnswers == wire_call.reader[2]

\* the reader has the (N, M) of the seal, and the JSON is as it was written
ReadAsWritten ==
    /\ Deserialized
    /\ wire_call.as_written
    /\ wire_call.reader = <<QUESTION_COUNT, MIN_CORRECT_ANSWERS>>

\* C18 (as stated): JSON whose encryptions array does not have C(N, M)
\* entries for the reader's (N, M) does not deserialize, and open never runs
\* on a container with another number of encryptions.
C18_EncryptionsCountChecked ==
    /\ (/\ Deserialized
        /\ Len(wire_call.json.encryptions)
              # Binomial(ReaderQuestionCount, ReaderMinCorrectAnswers))
       => ~IsOk(wire_call.result)
    /\ (Deserialized /\ Opened)
       => Len(open_call.sealed.encryptions)
             = Binomial(ReaderQuestionCount, ReaderMinCorrectAnswers)

\* the entries of the array that differ from each other
DistinctOnWire == Cardinality(Range(wire_call.json.security_questions_and_salts))

\* C19: JSON whose security_questions_and_salts array has k distinct
\* entries, k other than the reader's N, fails to deserialize, and the error
\* is the count error of questions and salts with expected N and found k
\* (as the message of the deserializer's error).
C19_QuestionsCountReported ==
    (Deserialized /\ DistinctOnWire # ReaderQuestionCount)
    => wire_call.result
          = Err(serde_custom(InvalidQuestionsAndSaltCount(ReaderQuestionCount, DistinctOnWire)))

\* C19 witness: an array of N entries, two of them the same, read under N
C19_Witness ==
    /\ Deserialized
    /\ ReaderQuestionCount = QUESTION_COUNT
    /\ Len(wire_call.json.security_questions_and_salts) = QUESTION_COUNT
    /\ DistinctOnWire = QUESTION_COUNT - 1
    /\ wire_call.result.error.msg
          = <<"Invalid questions and salt count: expected ", QUESTION_COUNT,
              ", found ", QUESTION_COUNT - 1>>

\* C20: the JSON of a container that seal returned, read under the (N, M) of
\* the seal, deserializes to a container equal to it: the same questions and
\* salts in order, the same scheme tags, the same ciphertexts in order. The
\* container read opens as the one written does, to the secret when the
\* sealing answers are given and the secret type reads its own bytes.
C20_WireRoundtrip ==
    /\ ReadAsWritten
       => LET written == seal_call.result.value
          IN /\ IsOk(wire_call.result)
             /\ wire_call.result.value = written
             /\ wire_call.result.value.security_questions_and_salts
                   = written.security_questions_and_salts
             /\ wire_call.result.value.encryptions = written.encryptions
    /\ (ReadAsWritten /\ Opened)
       => /\ open_call.result
                = open(QUESTION_COUNT, MIN_CORRECT_ANSWERS, seal_call.result.value,
                       open_call.with).result
          /\ (open_call.with = seal_call.with /\ RoundTrips(seal_call.secret))
             => open_call.result = Ok(seal_call.secret)

\* C20 witness: a container read back and opened with the sealing answers
\* gives the secret
C20_Witness ==
    /\ ReadAsWritten
    /\ Opened
    /\ QUESTION_COUNT = 3
    /\ Len(wire_call.json.encryptions) = 3
    /\ Len(wire_call.json.encryptions[1]) = 2 * (NONCE_LEN + 1 + AUTH_TAG_LEN)
    /\ open_call.with = seal_call.with
    /\ open_call.result = Ok(seal_call.secret)

---------------------------------------------------------------------------
(* Sub-KDF B *)

\* the M-element sets of positions 1..N
PositionSets == {c \in SUBSET (1..QUESTION_COUNT) : Cardinality(c) = MIN_CORRECT_ANSWERS}

\* a comes before b in the lexicographic order of the increasing sequences:
\* the least position that is in one only is in a
LexBefore(a, b) ==
    LET differ == (a \ b) \cup (b \ a)
    IN differ # {} /\ (CHOOSE p \in differ : \A q \in differ : p <= q) \in a

\* the place of a combination in lexicographic order, from 1
LexRank(c) == Cardinality({b \in PositionSets : LexBefore(b, c)}) + 1

\* the bitwise XOR of the entropies at the positions: what is in an odd
\* number of them
XorOver(entropies, positions) ==
    {x \in UNION {entropies[p] : p \in positions} :
        Cardinality({p \in positions : x \in entropies[p]}) % 2 = 1}

\* M and N for which there are combinations to XOR
XorParamsValid == MIN_CORRECT_ANSWERS >= 1 /\ MIN_CORRECT_ANSWERS <= QUESTION_COUNT

DistinctCombinationKeys(entropies) == {XorOver(entropies, c) : c \in PositionSets}

\* C21: the keys sub-KDF B returns are, in the lexicographic order of the
\* M-combinations of the positions, the XOR of the entropies at each
\* combination, and nothing else; it returns them whenever the combinations
\* XOR to C(N, M) different keys.
C21_KeyPerCombination ==
    (xor_call.tag = "Called" /\ XorParamsValid)
    => /\ IsOk(xor_call.result)
          => /\ Len(xor_call.result.value) = Cardinality(PositionSets)
             /\ \A c \in PositionSets :
                   xor_call.result.value[LexRank(c)] = XorOver(xor_call.entropies, c)
       /\ Cardinality(DistinctCombinationKeys(xor_call.entropies)) = Cardinality(PositionSets)
          => IsOk(xor_call.result)

\* C21 witness: four entropies, threshold 2, six keys
C21_Witness ==
    /\ xor_call.tag = "Called"
    /\ QUESTION_COUNT = 4
    /\ MIN_CORRECT_ANSWERS = 2
    /\ IsOk(xor_call.result)
    /\ Len(xor_call.result.value) = 6
    /\ xor_call.result.value[2] = xor(xor_call.entropies[1], xor_call.entropies[3])

\* C22: when the combinations XOR to fewer than C(N, M) different keys,
\* sub-KDF B returns invalid-questions-and-answers-count with expected
\* C(N, M) and found the number of different keys.
C22_AliasingRejected ==
    (/\ xor_call.tag = "Called"
     /\ XorParamsValid
     /\ Cardinality(DistinctCombinationKeys(xor_call.entropies)) # Cardinality(PositionSets))
    => xor_call.result
          = Err(InvalidQuestionsAndAnswersCount(
                    Binomial(QUESTION_COUNT, MIN_CORRECT_ANSWERS),
                    Cardinality(DistinctCombinationKeys(xor_call.entropies))))

\* C22 witness: four entropies, no two equal, two pairs of which XOR to the
\* same key
C22_Witness ==
    /\ xor_call.tag = "Called"
    /\ QUESTION_COUNT = 4
    /\ MIN_CORRECT_ANSWERS = 2
    /\ Cardinality(Range(xor_call.entropies)) = 4
    /\ xor_call.result = Err(InvalidQuestionsAndAnswersCount(6, 3))

\* impl PartialEq for IndexSet: the same elements, in whatever order
IndexSetEq(a, b) == Len(a) = Len(b) /\ Range(a) = Range(b)

\* C23: sub-KDF B on the entropies in another order returns a key set equal
\* to the one of the original order, and fails when the original order fails.
C23_OrderDoesNotMatter ==
    xor_call.tag = "Called"
    => IF IsOk(xor_call.result)
       THEN /\ IsOk(xor_call.result_reordered)
            /\ IndexSetEq(xor_call.result.value, xor_call.result_reordered.value)
       ELSE xor_call.result_reordered = xor_call.result

\* C23 witness: the order of the test, entropies 3, 1, 2, giving the same
\* keys in another order
C23_Witness ==
    /\ xor_call.tag = "Called"
    /\ QUESTION_COUNT = 3
    /\ MIN_CORRECT_ANSWERS = 2
    /\ xor_call.reordered
          = <<xor_call.entropies[3], xor_call.entropies[1], xor_call.entropies[2]>>
    /\ IsOk(xor_call.result)
    /\ xor_call.result_reordered.value # xor_call.result.value
    /\ IndexSetEq(xor_call.result.value, xor_call.result_reordered.value)

---------------------------------------------------------------------------
(* Order of the caller's entries *)

\* C24: open with the caller's entries in another order, all their questions
\* being questions of the container, returns what open returned for the
\* original order: the same secret, or a failure when that failed.
C24_OrderNotEnforced ==
    (/\ reopen_call.tag = "Called"
     /\ \A i \in 1..Len(open_call.with) :
           \E j \in 1..Len(open_call.sealed.security_questions_and_salts) :
               open_call.sealed.security_questions_and_salts[j].question
                   = open_call.with[i].question)
    => /\ IsOk(reopen_call.result) <=> IsOk(open_call.result)
       /\ reopen_call.result = open_call.result

\* C24 witness: three entries, two of them right, opened in the container's
\* order and then with the first entry last
C24_Witness ==
    /\ reopen_call.tag = "Called"
    /\ QUESTION_COUNT = 3
    /\ OverQuestions
    /\ Cardinality(Agreeing) = 2
    /\ reopen_call.order = <<2, 3, 1>>
    /\ reopen_call.with # open_call.with
    /\ open_call.result = Ok(seal_call.secret)
    /\ reopen_call.result = Ok(seal_call.secret)

---------------------------------------------------------------------------
(* The loops of open *)

\* the keys open derived and the ciphertexts it went through
OpenKeys ==
    derive_encryption_keys_from_questions_answers_and_salts(
        QUESTION_COUNT, MIN_CORRECT_ANSWERS, open_call.with).value

OpenEncryptions == open_call.sealed.encryptions

\* pair number p, keys outer, ciphertexts inner
KeyOfPair(p) == ((p - 1) \div Len(OpenEncryptions)) + 1

EncryptionOfPair(p) == ((p - 1) % Len(OpenEncryptions)) + 1

DecryptedByPair(p) == decrypt(OpenEncryptions[EncryptionOfPair(p)], OpenKeys[KeyOfPair(p)])

\* AEAD verification and the reconstruction of the secret both succeed
PairGivesSecret(p) ==
    /\ IsOk(DecryptedByPair(p))
    /\ IsOk(from_bytes(open_call.sealed.phantom, DecryptedByPair(p).value))

PairsGivingSecret == {p \in 1..(Len(OpenKeys) * Len(OpenEncryptions)) : PairGivesSecret(p)}

\* C25: when open returns a secret, it tried the pairs in order, keys outer
\* and ciphertexts inner, up to the first pair that verifies and
\* reconstructs and no further, and the secret is the one of that pair.
C25_FirstSuccessReturns ==
    (LoopRan /\ IsOk(open_call.result))
    => /\ PairsGivingSecret # {}
       /\ LET first == CHOOSE p \in PairsGivingSecret : \A q \in PairsGivingSecret : p <= q
          IN /\ Len(open_call.attempts) = first
             /\ \A p \in 1..first :
                   /\ open_call.attempts[p].key = KeyOfPair(p)
                   /\ open_call.attempts[p].encrypted = EncryptionOfPair(p)
             /\ open_call.result
                   = from_bytes(open_call.sealed.phantom, DecryptedByPair(first).value)

\* C25 witness: the ninth pair is the first to give the secret, and it is
\* the last one tried
C25_Witness ==
    /\ LoopRan
    /\ QUESTION_COUNT = 3
    /\ Len(OpenEncryptions) = 3
    /\ PairsGivingSecret = {9}
    /\ Len(open_call.attempts) = 9
    /\ open_call.result = Ok(seal_call.secret)

\* C26: open returns an error only when no pair verifies and reconstructs,
\* and then it has tried every pair of a key and a ciphertext, whatever the
\* pairs before did; it returns Ok whenever some pair verifies and
\* reconstructs, also when pairs before that one verified and did not
\* reconstruct.
C26_NoFailFast ==
    LoopRan
    => /\ IsErr(open_call.result)
          => /\ PairsGivingSecret = {}
             /\ {<<open_call.attempts[i].key, open_call.attempts[i].encrypted>> :
                     i \in 1..Len(open_call.attempts)}
                   = (1..Len(OpenKeys)) \X (1..Len(OpenEncryptions))
       /\ PairsGivingSecret # {} => IsOk(open_call.result)

\* C26 witness: a pair verified and did not reconstruct, a later pair gave
\* the secret
C26_Witness ==
    /\ LoopRan
    /\ IsOk(open_call.result)
    /\ \E i \in 1..Len(open_call.attempts) :
          /\ open_call.attempts[i].decrypted
          /\ IsErr(open_call.attempts[i].secret)
    /\ \E i \in 1..Len(open_call.attempts) : ~open_call.attempts[i].decrypted

---------------------------------------------------------------------------
(* Construction errors and cryptography *)

\* a wrong count, a repeated question, or an empty answer
IsConstructionError(result) ==
    /\ IsErr(result)
    /\ result.error.kind \in {"InvalidQuestionsAndAnswersCount", "InvalidQuestionsAndSaltCount",
                              "AnswersToSecurityQuestionsCannotBeEmpty"}

\* C27 (as stated): when seal or open, under N >= M >= 2 and with entries of
\* different questions, returns a wrong count or an empty answer, no HKDF
\* derivation, XOR or AEAD operation has been performed for any entry.
C27_ConstructionErrorsFirst ==
    /\ (seal_call.tag = "Called" /\ ValidParams /\ DistinctQuestions(seal_call.with)
           /\ IsConstructionError(seal_call.result))
       => seal_call.crypto = <<>>
    /\ (Opened /\ ValidParams /\ DistinctQuestions(open_call.with)
           /\ IsConstructionError(open_call.result))
       => open_call.crypto = <<>>

---------------------------------------------------------------------------
(* What seal stores and what seal and open leave alone *)

\* the container holds, place by place, the question and the salt of the
\* caller's entries and nothing else of them
HoldsCallersQuestionsAndSalts(sealed, with) ==
    /\ Len(sealed.security_questions_and_salts) = Len(with)
    /\ \A i \in 1..Len(with) :
          sealed.security_questions_and_salts[i]
              = [question |-> with[i].question, salt |-> with[i].salt]

\* C28: a seal that returns a container returns one that holds at position i
\* the question and the salt of the caller's i-th entry, without the answer;
\* a seal and an open draw no salt; an open leaves the container as it was.
C28_SaltsKept ==
    [][/\ seal_call' # seal_call
          => /\ salts_generated' = salts_generated
             /\ IsOk(seal_call'.result)
                => HoldsCallersQuestionsAndSalts(seal_call'.result.value, seal_call'.with)
       /\ open_call' # open_call
          => /\ salts_generated' = salts_generated
             /\ seal_call' = seal_call
             /\ open_call'.sealed = seal_call.result.value
             /\ HoldsCallersQuestionsAndSalts(open_call'.sealed, seal_call.with)]_vars

\* C28 witness: salts were generated, three entries with salts 1, 2, 1 were
\* sealed and the container opened
C28_Witness ==
    /\ Sealed
    /\ Opened
    /\ salts_generated > 0
    /\ QUESTION_COUNT = 3
    /\ [i \in 1..3 |-> seal_call.result.value.security_questions_and_salts[i].salt] = <<1, 2, 1>>
    /\ open_call.result = Ok(seal_call.secret)

---------------------------------------------------------------------------
(* Errors are values; the number of keys *)

\* C29 (as stated): for a secret whose to_bytes succeeds, the empty one
\* included, N >= M >= 2 and N entries of different questions, seal returns
\* a container or an error and does not abort, and every ciphertext of the
\* container is at least 29 bytes long.
C29_SealNeverAborts ==
    (/\ seal_call.tag = "Called"
     /\ IsOk(to_bytes(seal_call.secret))
     /\ ValidParams
     /\ DistinctQuestions(seal_call.with))
    => /\ seal_call.result.tag \in {"Ok", "Err"}
       /\ IsOk(seal_call.result)
          => \A i \in 1..Len(seal_call.result.value.encryptions) :
                ByteLen(seal_call.result.value.encryptions[i]) >= 29

\* v * 1 * 2 * ... * m
RECURSIVE TimesFactorial(_, _)
TimesFactorial(v, m) ==
    IF m = 0 THEN v ELSE TrimLimbs(MulSmall(TimesFactorial(v, m - 1), m, 0))

\* n * (n - 1) * ... * (n - m + 1)
RECURSIVE FallingFactorial(_, _)
FallingFactorial(n, m) ==
    IF m = 0 THEN <<1>> ELSE TrimLimbs(MulSmall(FallingFactorial(n, m - 1), n - m + 1, 0))

\* C30 (as stated): n_choose_m returns C(N, M) for 0 <= M <= N, that is the
\* number v with v * M! = N * (N - 1) * ... * (N - M + 1), and
\* questions-must-be->=-answers {questions: N, answers: M} for M > N.
C30_NChooseM ==
    binom_call.tag = "Called"
    => IF binom_call.m > binom_call.n
       THEN binom_call.result
               = Err(QuestionsMustBeGreaterThanOrEqualAnswers(binom_call.n, binom_call.m))
       ELSE /\ IsOk(binom_call.result)
            /\ TimesFactorial(binom_call.result.value, binom_call.m)
                  = FallingFactorial(binom_call.n, binom_call.m)

====
